---- MODULE Spec2Model ----
(***************************************************************************)
(* Model of rcutils' time facility: rcutils_system_time_now,               *)
(* rcutils_steady_time_now, the per-thread steady-clock monotonicity check *)
(* and its three thread-local-storage backends (src/src/time_common.c,     *)
(* src/src/time_unix.c, src/include/rcutils/time.h).                       *)
(*                                                                         *)
(* Integers: TLC's integers are 32 bit, so rcutils_time_point_value_t      *)
(* (int64_t) is modelled as an IntBits-bit two's-complement integer and    *)
(* one second as NS_PER_S "nanoseconds"; every comparison and every        *)
(* overflow test of the code is kept as written, relative to these.        *)
(***************************************************************************)
EXTENDS Integers, Sequences, FiniteSets, TLC

\* ------------------------------------------------------------ bounds
\* Number of threads of the process.
NumThreads == 2
\* Width of the modelled int64_t.
IntBits == 16
\* RCUTILS_S_TO_NS's factor (1000 * 1000 * 1000 in the source, scaled).
NS_PER_S == 1000

Threads == 1..NumThreads

INT64_MAX == 2^(IntBits - 1) - 1
INT64_MIN == -(2^(IntBits - 1))

\* The value a C int64_t expression holds after signed wrap-around.
Wrap(x) == ((x + 2^(IntBits - 1)) % (2^IntBits)) - 2^(IntBits - 1)

\* The longest logger name a call is made with.
MaxNameLen == 3

\* ------------------------------------------------------------ return codes
RCUTILS_RET_OK == "RCUTILS_RET_OK"
RCUTILS_RET_ERROR == "RCUTILS_RET_ERROR"
RCUTILS_RET_BAD_ALLOC == "RCUTILS_RET_BAD_ALLOC"
RCUTILS_RET_INVALID_ARGUMENT == "RCUTILS_RET_INVALID_ARGUMENT"
RCUTILS_CALCULATION_OVERFLOW == "RCUTILS_CALCULATION_OVERFLOW"
RCUTILS_NON_MONOTONIC_STEADY_TIME == "RCUTILS_NON_MONOTONIC_STEADY_TIME"
\* Outcome of undefined behaviour that ends the process (a call through a
\* pointer that is no cell of this library).
CRASH == "CRASH"

\* errno values returned by the pthread calls (0: success).
PTHREAD_OK == "0"
EAGAIN == "EAGAIN"
ENOMEM == "ENOMEM"
EINVAL == "EINVAL"

\* ------------------------------------------------------------ build configuration
\* RCUTILS_DISABLE_TIME_SANITY_CHECKS / RCUTILS_THREAD_LOCAL_PTHREAD select one of:
DISABLED == "disabled"
NATIVE == "native"
PTHREAD == "pthread"
Backends == {DISABLED, NATIVE, PTHREAD}

\* The platform file the library was built from: time_unix.c or time_win32.c.
UNIX == "unix"
WIN32 == "win32"
Platforms == {UNIX, WIN32}

\* rcutils_allocator_t values: the default allocator and a custom one.
DEFAULT_ALLOCATOR == "default_allocator"
CUSTOM_ALLOCATOR == "custom_allocator"
Allocators == {DEFAULT_ALLOCATOR, CUSTOM_ALLOCATOR}
rcutils_get_default_allocator == DEFAULT_ALLOCATOR

\* A null pointer, and a pointer to an object x.
NULL == << >>
Ptr(x) == << x >>
Deref(p) == p[1]

VARIABLES
  platform,         \* the platform the library was built for
  backend,          \* the thread-local-storage backend the library was built with
  faults,           \* whether the OS and the allocators may run out of resources
  __key_init_once,  \* pthread_once_t: "INIT", "RUNNING" (the routine runs) or "DONE"
  __last_steady_timestamp_storage_key,  \* pthread_key_t: "invalid" (never created) or "valid"
  __make_pthread_keys_ret,
  alive,            \* alive[t]: thread t has not exited
  __last_steady_timestamp,  \* native backend: thread t's _Thread_local int64_t
  slot,             \* pthread backend: thread t's value under the key (NULL or a cell pointer)
  accepted,         \* ghost: largest candidate the check accepted (sanity checks disabled: the
                    \* largest value a call passed or returned) since t's cell was created
  used,             \* ghost: t has called init, steady_time_now or the check
  afterFini,        \* ghost: t's latest steady-clock call was a fini that returned RCUTILS_RET_OK
  crashed,          \* undefined behaviour has ended the process
  pc,               \* where thread t is inside __ensure_last_steady_timestamp_storage
  key_creations,    \* ghost: how often __make_pthread_keys has run
  twin,             \* two builds side by side: the call the native build has answered
  logging,          \* the logging facility's globals
  log_ev,           \* ghost: the last logging call, its arguments and what it did
  memory_tools,     \* the memory tools' switches
  mem_ev,           \* ghost: the last intercepted memory call and what the hook did, in order
  ev                \* ghost: the last call: who, what, arguments, result and what it did

vars == << platform, backend, faults, __key_init_once, __last_steady_timestamp_storage_key,
           __make_pthread_keys_ret, alive, __last_steady_timestamp, slot,
           accepted, used, afterFini, crashed, pc, key_creations, twin,
           logging, log_ev, memory_tools, mem_ev, ev >>

Max(a, b) == IF a >= b THEN a ELSE b

\* ------------------------------------------------------------ environment
\* What pthread_key_create, allocator.allocate and pthread_setspecific can answer.
KeyCreateResults == IF faults THEN {PTHREAD_OK, EAGAIN, ENOMEM} ELSE {PTHREAD_OK}
AllocateResults == IF faults THEN {TRUE, FALSE} ELSE {TRUE}
SetSpecificResults == IF faults THEN {PTHREAD_OK, ENOMEM} ELSE {PTHREAD_OK}

\* Largest seconds value whose nanoseconds fit: INT64_MAX / 1000000000LL.
MaxSeconds == INT64_MAX \div NS_PER_S

\* struct timespec values the OS clock delivers: negative ones, small ones,
\* the largest one that fits, and ones that overflow in the multiplication
\* or in the addition.
ClockSamples ==
  { [tv_sec |-> -1, tv_nsec |-> 5],
    [tv_sec |-> 0, tv_nsec |-> 0],
    [tv_sec |-> 0, tv_nsec |-> 1],
    [tv_sec |-> 1, tv_nsec |-> 0],
    [tv_sec |-> MaxSeconds, tv_nsec |-> (INT64_MAX % NS_PER_S) + 1],
    [tv_sec |-> MaxSeconds + 1, tv_nsec |-> 0] }

\* struct timespec's fields are signed, and the conversion is defined on all
\* of them: timespecs negative by their seconds and by their nanoseconds,
\* zero, small ones, one whose nanoseconds outweigh its seconds, the largest
\* that fits, one more than that, seconds that are too many, and seconds that
\* are too many with nanoseconds that make up for it.
AnyClockSamples ==
  { [tv_sec |-> -1, tv_nsec |-> 0],
    [tv_sec |-> 0, tv_nsec |-> -1],
    [tv_sec |-> 0, tv_nsec |-> 0],
    [tv_sec |-> 0, tv_nsec |-> 1],
    [tv_sec |-> 1, tv_nsec |-> 0],
    [tv_sec |-> 1, tv_nsec |-> -(2 * NS_PER_S)],
    [tv_sec |-> MaxSeconds, tv_nsec |-> INT64_MAX % NS_PER_S],
    [tv_sec |-> MaxSeconds, tv_nsec |-> (INT64_MAX % NS_PER_S) + 1],
    [tv_sec |-> MaxSeconds + 1, tv_nsec |-> 0],
    [tv_sec |-> MaxSeconds + 1, tv_nsec |-> -(2 * NS_PER_S)] }

\* FILETIME of January 1st, 1970 (116444736000000000LL in the source, which
\* is about 1.26 times INT64_MAX / 100; scaled with the integer width).
FILETIME_EPOCH == (INT64_MAX \div 100) + (INT64_MAX \div 400)

\* FILETIME values GetSystemTimePreciseAsFileTime delivers, as li.QuadPart:
\* just before and at the epoch, later, and one that overflows.
FileTimes ==
  { [ft |-> FILETIME_EPOCH - 1],
    [ft |-> FILETIME_EPOCH],
    [ft |-> FILETIME_EPOCH + 10],
    [ft |-> FILETIME_EPOCH + (INT64_MAX \div 100) + 1] }

\* What QueryPerformanceCounter and QueryPerformanceFrequency deliver.
PerformanceCounts ==
  { [count |-> -1, freq |-> 1],
    [count |-> 0, freq |-> 1],
    [count |-> 1, freq |-> NS_PER_S],
    [count |-> 1, freq |-> 1],
    [count |-> MaxSeconds + 1, freq |-> 1] }

\* Candidates handed directly to the monotonicity check.
Candidates == {0, 1, NS_PER_S}

\* ------------------------------------------------------------ the calling thread's view
\* The state one call can touch: the process-wide key and the calling
\* thread's storage, with counters of what the call did to the heap.
\* Faulty variant: the storage is one per process, not one per thread.
machine_sharing_storage(t) ==
  [ once |-> __key_init_once,
    key |-> __last_steady_timestamp_storage_key,
    kret |-> __make_pthread_keys_ret,
    slot |-> slot[1],
    tls |-> __last_steady_timestamp[1],
    nalloc |-> 0, nfree |-> 0, refree |-> FALSE, uncreated |-> FALSE,
    with |-> "none", by |-> "none" ]

Machine(t) ==
  [ once |-> __key_init_once,
    key |-> __last_steady_timestamp_storage_key,
    kret |-> __make_pthread_keys_ret,
    slot |-> slot[t],
    tls |-> __last_steady_timestamp[t],
    nalloc |-> 0, nfree |-> 0, refree |-> FALSE, uncreated |-> FALSE,
    with |-> "none", by |-> "none" ]

\* ------------------------------------------------------------ pthread backend
\* pthread_key_create's result r decides __make_pthread_keys_ret.
__make_pthread_keys(m, r) ==
  CASE r = PTHREAD_OK -> [m EXCEPT !.key = "valid"]
    [] r = EAGAIN -> [m EXCEPT !.kret = RCUTILS_RET_ERROR]
    [] r = ENOMEM -> [m EXCEPT !.kret = RCUTILS_RET_BAD_ALLOC]
    [] OTHER -> [m EXCEPT !.kret = RCUTILS_RET_ERROR]

\* pthread_once(&__key_init_once, __make_pthread_keys): runs the routine the
\* first time only.
pthread_once(m, r) ==
  IF m.once = "INIT" THEN [__make_pthread_keys(m, r) EXCEPT !.once = "DONE"] ELSE m

\* pthread_setspecific(key, p) answered r.
__set_last_steady_timestamp(m, p, r) ==
  CASE r = PTHREAD_OK -> [ret |-> RCUTILS_RET_OK, m |-> [m EXCEPT !.slot = p]]
    [] r = ENOMEM -> [ret |-> RCUTILS_RET_BAD_ALLOC, m |-> m]
    [] r = EINVAL -> [ret |-> RCUTILS_RET_ERROR, m |-> m]
    [] OTHER -> [ret |-> RCUTILS_RET_OK, m |-> m]

\* Faulty variant: allocates a cell whether or not the thread has one.
ensure_always_allocating(m, allocator, o) ==
  LET m1 == pthread_once(m, o.kc)
      cell == [ timestamp |-> INT64_MIN, self_allocator |-> allocator,
                by |-> allocator, frees |-> 0 ]
  IN IF m1.kret # RCUTILS_RET_OK THEN [ret |-> m1.kret, m |-> m1]
     ELSE __set_last_steady_timestamp([m1 EXCEPT !.nalloc = @ + 1], Ptr(cell), o.inst)

\* Faulty variant: binds the allocator of the call to a cell that exists.
ensure_rebinding_allocator(m, allocator, o) ==
  LET m1 == pthread_once(m, o.kc)
      cell == [ timestamp |-> INT64_MIN, self_allocator |-> allocator,
                by |-> allocator, frees |-> 0 ]
  IN IF m1.kret # RCUTILS_RET_OK THEN [ret |-> m1.kret, m |-> m1]
     ELSE IF m1.slot = NULL
       THEN __set_last_steady_timestamp([m1 EXCEPT !.nalloc = @ + 1], Ptr(cell), o.inst)
       ELSE [ret |-> RCUTILS_RET_OK,
             m |-> [m1 EXCEPT !.slot = Ptr([Deref(m1.slot) EXCEPT !.self_allocator = allocator])]]

\* o.kc: pthread_key_create's result; o.alloc: allocate returned memory;
\* o.inst: pthread_setspecific's result.  (pthread_once itself returns 0:
\* its arguments are valid statics.)
__ensure_last_steady_timestamp_storage(m, allocator, o) ==
  LET m1 == pthread_once(m, o.kc) IN
  IF m1.kret # RCUTILS_RET_OK THEN [ret |-> m1.kret, m |-> m1]
  ELSE IF m1.slot = NULL
    THEN IF ~o.alloc THEN [ret |-> RCUTILS_RET_BAD_ALLOC, m |-> m1]
         ELSE LET cell == [ timestamp |-> INT64_MIN, self_allocator |-> allocator,
                            by |-> allocator, frees |-> 0 ]
              IN __set_last_steady_timestamp([m1 EXCEPT !.nalloc = @ + 1], Ptr(cell), o.inst)
    ELSE [ret |-> RCUTILS_RET_OK, m |-> m1]

\* allocator.deallocate(p, allocator.state) with the allocator a.
Deallocate(m, a) ==
  LET cell == Deref(m.slot) IN
  [m EXCEPT !.slot = Ptr([cell EXCEPT !.frees = IF @ < 2 THEN @ + 1 ELSE @]),
            !.nfree = @ + 1, !.refree = @ \/ cell.frees > 0,
            !.with = a, !.by = cell.by]

\* Faulty variant: releases the cell with the default allocator.
destroy_with_default_allocator(m, o) ==
  IF m.key = "valid" /\ m.slot # NULL
  THEN __set_last_steady_timestamp(Deallocate(m, rcutils_get_default_allocator), NULL, o.clr)
  ELSE [ret |-> RCUTILS_RET_OK, m |-> m]

\* Faulty variant: releases the cell and leaves its address under the key.
destroy_without_clearing(m, o) ==
  IF m.key = "valid" /\ m.slot # NULL
  THEN [ret |-> RCUTILS_RET_OK, m |-> Deallocate(m, Deref(m.slot).self_allocator)]
  ELSE [ret |-> RCUTILS_RET_OK, m |-> m]

\* pthread_getspecific with a key that pthread_key_create never made is
\* undefined: it yields NULL, or whatever the process stored under that key
\* value (o.wild), which is then used as a cell and its allocator called.
__destroy_last_steady_timestamp_storage(m, o) ==
  IF m.key # "valid"
  THEN [ret |-> IF o.wild THEN CRASH ELSE RCUTILS_RET_OK,
        m |-> [m EXCEPT !.uncreated = TRUE]]
  ELSE IF m.slot # NULL
    THEN __set_last_steady_timestamp(Deallocate(m, Deref(m.slot).self_allocator), NULL, o.clr)
    ELSE [ret |-> RCUTILS_RET_OK, m |-> m]

\* The value read through a cell pointer: anything once the cell is freed.
ReadTimestamp(p, o) == IF Deref(p).frees > 0 THEN o.garbage ELSE Deref(p).timestamp

\* ------------------------------------------------------------ the four backend functions
__rcutils_time_common_get_last_steady_timestamp_thread_local(m, o) ==
  CASE backend = DISABLED -> [ret |-> RCUTILS_RET_OK, m |-> m, val |-> INT64_MIN]
    [] backend = NATIVE -> [ret |-> RCUTILS_RET_OK, m |-> m, val |-> m.tls]
    [] backend = PTHREAD ->
         LET e == __ensure_last_steady_timestamp_storage(m, rcutils_get_default_allocator, o) IN
         IF e.ret # RCUTILS_RET_OK THEN [ret |-> e.ret, m |-> e.m, val |-> INT64_MIN]
         ELSE IF e.m.slot = NULL THEN [ret |-> RCUTILS_RET_ERROR, m |-> e.m, val |-> INT64_MIN]
         ELSE [ret |-> RCUTILS_RET_OK, m |-> e.m, val |-> ReadTimestamp(e.m.slot, o)]

__rcutils_time_common_set_last_steady_timestamp_thread_local(m, new_last_steady_timestamp, o) ==
  CASE backend = DISABLED -> [ret |-> RCUTILS_RET_OK, m |-> m]
    [] backend = NATIVE ->
         [ret |-> RCUTILS_RET_OK, m |-> [m EXCEPT !.tls = new_last_steady_timestamp]]
    [] backend = PTHREAD ->
         LET e == __ensure_last_steady_timestamp_storage(m, rcutils_get_default_allocator, o) IN
         IF e.ret # RCUTILS_RET_OK THEN e
         ELSE IF e.m.slot = NULL THEN [ret |-> RCUTILS_RET_ERROR, m |-> e.m]
         ELSE LET p == Ptr([Deref(e.m.slot) EXCEPT !.timestamp = new_last_steady_timestamp])
              IN __set_last_steady_timestamp([e.m EXCEPT !.slot = p], p, o.reinst)

\* Faulty variant: the pthread implementation also where sanity checks are disabled.
ensure_ignoring_disabled_flag(m, allocator, o) ==
  IF backend = NATIVE THEN [ret |-> RCUTILS_RET_OK, m |-> m]
  ELSE __ensure_last_steady_timestamp_storage(m, allocator, o)

__rcutils_time_common_ensure_last_steady_timestamp(m, allocator, o) ==
  CASE backend = DISABLED -> [ret |-> RCUTILS_RET_OK, m |-> m]
    [] backend = NATIVE -> [ret |-> RCUTILS_RET_OK, m |-> m]
    [] backend = PTHREAD -> __ensure_last_steady_timestamp_storage(m, allocator, o)

__rcutils_time_common_destroy_last_steady_timestamp(m, o) ==
  CASE backend = DISABLED -> [ret |-> RCUTILS_RET_OK, m |-> m]
    [] backend = NATIVE -> [ret |-> RCUTILS_RET_OK, m |-> m]
    [] backend = PTHREAD -> __destroy_last_steady_timestamp_storage(m, o)

\* ------------------------------------------------------------ public and private functions
\* Faulty variant: stores the candidate without comparing.
check_without_comparison(m, current_steady_timestamp, o) ==
  LET g == __rcutils_time_common_get_last_steady_timestamp_thread_local(m, o) IN
  IF g.ret # RCUTILS_RET_OK THEN [ret |-> g.ret, m |-> g.m]
  ELSE __rcutils_time_common_set_last_steady_timestamp_thread_local(
         g.m, current_steady_timestamp, o)

\* Faulty variant: rejects a candidate equal to the recorded one.
check_rejecting_equal(m, current_steady_timestamp, o) ==
  LET g == __rcutils_time_common_get_last_steady_timestamp_thread_local(m, o) IN
  IF g.ret # RCUTILS_RET_OK THEN [ret |-> g.ret, m |-> g.m]
  ELSE IF g.val >= current_steady_timestamp
    THEN [ret |-> RCUTILS_NON_MONOTONIC_STEADY_TIME, m |-> g.m]
    ELSE __rcutils_time_common_set_last_steady_timestamp_thread_local(
           g.m, current_steady_timestamp, o)

\* Faulty variant: records the candidate it rejects.
check_recording_rejected(m, current_steady_timestamp, o) ==
  LET g == __rcutils_time_common_get_last_steady_timestamp_thread_local(m, o)
      s == __rcutils_time_common_set_last_steady_timestamp_thread_local(
             g.m, current_steady_timestamp, o)
  IN IF g.ret # RCUTILS_RET_OK THEN [ret |-> g.ret, m |-> g.m]
     ELSE IF g.val > current_steady_timestamp
       THEN [ret |-> RCUTILS_NON_MONOTONIC_STEADY_TIME, m |-> s.m]
       ELSE s

__rcutils_check_steady_time_monotonicity_thread_local(m, current_steady_timestamp, o) ==
  LET g == __rcutils_time_common_get_last_steady_timestamp_thread_local(m, o) IN
  IF g.ret # RCUTILS_RET_OK THEN [ret |-> g.ret, m |-> g.m]
  ELSE IF g.val > current_steady_timestamp
    THEN [ret |-> RCUTILS_NON_MONOTONIC_STEADY_TIME, m |-> g.m]
    ELSE __rcutils_time_common_set_last_steady_timestamp_thread_local(
           g.m, current_steady_timestamp, o)

rcutils_steady_time_now_thread_specific_init(m, custom_allocator, o) ==
  __rcutils_time_common_ensure_last_steady_timestamp(m, custom_allocator, o)

rcutils_steady_time_now_thread_specific_fini(m, o) ==
  __rcutils_time_common_destroy_last_steady_timestamp(m, o)

__WOULD_BE_NEGATIVE(seconds, subseconds) ==
  seconds < 0 \/ (subseconds < 0 /\ seconds = 0)

RCUTILS_S_TO_NS(seconds) == Wrap(seconds * NS_PER_S)

\* Faulty variant: the overflow test without the test of the addition.
overflow_of_seconds_only(ts) ==
  ts.tv_sec > INT64_MAX \div NS_PER_S

\* time_unix.c's overflow test of a timespec.
overflow_happened(ts) ==
  \/ ts.tv_sec > INT64_MAX \div NS_PER_S
  \/ (ts.tv_nsec > 0 /\ RCUTILS_S_TO_NS(ts.tv_sec) > INT64_MAX - ts.tv_nsec)

total_ns(ts) == Wrap(RCUTILS_S_TO_NS(ts.tv_sec) + ts.tv_nsec)

\* Faulty variant: the steady read tests its destination after the monotonicity check.
steady_time_now_checking_null_last(m, now_is_null, timespec_now, o) ==
  IF __WOULD_BE_NEGATIVE(timespec_now.tv_sec, timespec_now.tv_nsec)
    THEN [ret |-> RCUTILS_RET_ERROR, m |-> m, now |-> NULL]
  ELSE IF backend = DISABLED
    THEN IF now_is_null
         THEN [ret |-> RCUTILS_RET_INVALID_ARGUMENT, m |-> m, now |-> NULL]
         ELSE [ret |-> RCUTILS_RET_OK, m |-> m, now |-> Ptr(total_ns(timespec_now))]
  ELSE IF overflow_happened(timespec_now)
    THEN [ret |-> RCUTILS_CALCULATION_OVERFLOW, m |-> m, now |-> NULL]
  ELSE LET c == __rcutils_check_steady_time_monotonicity_thread_local(
                  m, total_ns(timespec_now), o) IN
       IF c.ret # RCUTILS_RET_OK THEN [ret |-> c.ret, m |-> c.m, now |-> NULL]
       ELSE IF now_is_null
         THEN [ret |-> RCUTILS_RET_INVALID_ARGUMENT, m |-> c.m, now |-> NULL]
       ELSE [ret |-> RCUTILS_RET_OK, m |-> c.m, now |-> Ptr(total_ns(timespec_now))]

\* Faulty variant: the steady read stores the value before the monotonicity check.
steady_time_now_storing_before_check(m, now_is_null, timespec_now, o) ==
  IF now_is_null THEN [ret |-> RCUTILS_RET_INVALID_ARGUMENT, m |-> m, now |-> NULL]
  ELSE IF __WOULD_BE_NEGATIVE(timespec_now.tv_sec, timespec_now.tv_nsec)
    THEN [ret |-> RCUTILS_RET_ERROR, m |-> m, now |-> NULL]
  ELSE IF backend = DISABLED
    THEN [ret |-> RCUTILS_RET_OK, m |-> m, now |-> Ptr(total_ns(timespec_now))]
  ELSE IF overflow_happened(timespec_now)
    THEN [ret |-> RCUTILS_CALCULATION_OVERFLOW, m |-> m, now |-> NULL]
  ELSE LET c == __rcutils_check_steady_time_monotonicity_thread_local(
                  m, total_ns(timespec_now), o) IN
       [ret |-> c.ret, m |-> c.m, now |-> Ptr(total_ns(timespec_now))]

\* Faulty variant: the steady read runs the monotonicity check before it
\* tests the sample.
steady_time_now_guarding_first(m, now_is_null, timespec_now, o) ==
  IF now_is_null THEN [ret |-> RCUTILS_RET_INVALID_ARGUMENT, m |-> m, now |-> NULL]
  ELSE IF backend = DISABLED
    THEN IF __WOULD_BE_NEGATIVE(timespec_now.tv_sec, timespec_now.tv_nsec)
         THEN [ret |-> RCUTILS_RET_ERROR, m |-> m, now |-> NULL]
         ELSE [ret |-> RCUTILS_RET_OK, m |-> m, now |-> Ptr(total_ns(timespec_now))]
  ELSE LET c == __rcutils_check_steady_time_monotonicity_thread_local(
                  m, total_ns(timespec_now), o) IN
       IF __WOULD_BE_NEGATIVE(timespec_now.tv_sec, timespec_now.tv_nsec)
         THEN [ret |-> RCUTILS_RET_ERROR, m |-> c.m, now |-> NULL]
       ELSE IF overflow_happened(timespec_now)
         THEN [ret |-> RCUTILS_CALCULATION_OVERFLOW, m |-> c.m, now |-> NULL]
       ELSE IF c.ret # RCUTILS_RET_OK THEN [ret |-> c.ret, m |-> c.m, now |-> NULL]
       ELSE [ret |-> RCUTILS_RET_OK, m |-> c.m, now |-> Ptr(total_ns(timespec_now))]

\* time_unix.c; now_is_null: the caller passed now == NULL; timespec_now: what
\* the OS clock delivered.  Result: the status, the machine, and the value
\* stored to *now (NULL: nothing stored).
rcutils_steady_time_now(m, now_is_null, timespec_now, o) ==
  IF now_is_null THEN [ret |-> RCUTILS_RET_INVALID_ARGUMENT, m |-> m, now |-> NULL]
  ELSE IF __WOULD_BE_NEGATIVE(timespec_now.tv_sec, timespec_now.tv_nsec)
    THEN [ret |-> RCUTILS_RET_ERROR, m |-> m, now |-> NULL]
  ELSE IF backend = DISABLED
    THEN [ret |-> RCUTILS_RET_OK, m |-> m, now |-> Ptr(total_ns(timespec_now))]
  ELSE IF overflow_happened(timespec_now)
    THEN [ret |-> RCUTILS_CALCULATION_OVERFLOW, m |-> m, now |-> NULL]
  ELSE LET c == __rcutils_check_steady_time_monotonicity_thread_local(
                  m, total_ns(timespec_now), o) IN
       IF c.ret # RCUTILS_RET_OK THEN [ret |-> c.ret, m |-> c.m, now |-> NULL]
       ELSE [ret |-> RCUTILS_RET_OK, m |-> c.m, now |-> Ptr(total_ns(timespec_now))]

\* Faulty variant: the system read runs the steady clock's monotonicity check.
system_time_now_checking_monotonicity(m, now_is_null, timespec_now) ==
  IF now_is_null THEN [ret |-> RCUTILS_RET_INVALID_ARGUMENT, m |-> m, now |-> NULL]
  ELSE IF __WOULD_BE_NEGATIVE(timespec_now.tv_sec, timespec_now.tv_nsec)
    THEN [ret |-> RCUTILS_RET_ERROR, m |-> m, now |-> NULL]
  ELSE IF backend = DISABLED
    THEN [ret |-> RCUTILS_RET_OK, m |-> m, now |-> Ptr(total_ns(timespec_now))]
  ELSE IF overflow_happened(timespec_now)
    THEN [ret |-> RCUTILS_RET_ERROR, m |-> m, now |-> NULL]
  ELSE LET c == __rcutils_check_steady_time_monotonicity_thread_local(
                  m, total_ns(timespec_now),
                  [ kc |-> PTHREAD_OK, alloc |-> TRUE, inst |-> PTHREAD_OK,
                    reinst |-> PTHREAD_OK, clr |-> PTHREAD_OK,
                    garbage |-> INT64_MIN, wild |-> FALSE ]) IN
       IF c.ret # RCUTILS_RET_OK THEN [ret |-> c.ret, m |-> c.m, now |-> NULL]
       ELSE [ret |-> RCUTILS_RET_OK, m |-> c.m, now |-> Ptr(total_ns(timespec_now))]

rcutils_system_time_now(m, now_is_null, timespec_now) ==
  IF now_is_null THEN [ret |-> RCUTILS_RET_INVALID_ARGUMENT, m |-> m, now |-> NULL]
  ELSE IF __WOULD_BE_NEGATIVE(timespec_now.tv_sec, timespec_now.tv_nsec)
    THEN [ret |-> RCUTILS_RET_ERROR, m |-> m, now |-> NULL]
  ELSE IF backend = DISABLED
    THEN [ret |-> RCUTILS_RET_OK, m |-> m, now |-> Ptr(total_ns(timespec_now))]
  ELSE IF overflow_happened(timespec_now)
    THEN [ret |-> RCUTILS_RET_ERROR, m |-> m, now |-> NULL]
  ELSE [ret |-> RCUTILS_RET_OK, m |-> m, now |-> Ptr(total_ns(timespec_now))]

\* C's integer division and remainder (truncation towards zero).
CDiv(a, b) ==
  LET q == (IF a < 0 THEN -a ELSE a) \div (IF b < 0 THEN -b ELSE b)
  IN IF (a < 0) = (b < 0) THEN q ELSE -q
CMod(a, b) == a - b * CDiv(a, b)

\* time_win32.c; filetime: what GetSystemTimePreciseAsFileTime delivered.
rcutils_system_time_now_win32(m, now_is_null, filetime) ==
  LET QuadPart == Wrap(filetime.ft - FILETIME_EPOCH) IN
  IF now_is_null THEN [ret |-> RCUTILS_RET_INVALID_ARGUMENT, m |-> m, now |-> NULL]
  ELSE IF QuadPart > INT64_MAX \div 100
    THEN [ret |-> RCUTILS_CALCULATION_OVERFLOW, m |-> m, now |-> NULL]
  ELSE [ret |-> RCUTILS_RET_OK, m |-> m, now |-> Ptr(Wrap(QuadPart * 100))]

\* time_win32.c; performance_count: the performance counter and its frequency.
rcutils_steady_time_now_win32(m, now_is_null, performance_count, o) ==
  LET whole_seconds == CDiv(performance_count.count, performance_count.freq)
      remainder_count == CMod(performance_count.count, performance_count.freq)
      remainder_ns == CDiv(RCUTILS_S_TO_NS(remainder_count), performance_count.freq)
      total_seconds_in_ns == RCUTILS_S_TO_NS(whole_seconds)
      total == Wrap(total_seconds_in_ns + remainder_ns)
  IN
  IF now_is_null THEN [ret |-> RCUTILS_RET_INVALID_ARGUMENT, m |-> m, now |-> NULL]
  ELSE IF backend = DISABLED THEN [ret |-> RCUTILS_RET_OK, m |-> m, now |-> Ptr(total)]
  ELSE IF remainder_count > INT64_MAX \div NS_PER_S
    THEN [ret |-> RCUTILS_CALCULATION_OVERFLOW, m |-> m, now |-> NULL]
  ELSE IF whole_seconds > INT64_MAX \div NS_PER_S
    THEN [ret |-> RCUTILS_CALCULATION_OVERFLOW, m |-> m, now |-> NULL]
  ELSE IF remainder_ns > 0 /\ total_seconds_in_ns > INT64_MAX - remainder_ns
    THEN [ret |-> RCUTILS_CALCULATION_OVERFLOW, m |-> m, now |-> NULL]
  ELSE LET c == __rcutils_check_steady_time_monotonicity_thread_local(m, total, o) IN
       IF c.ret # RCUTILS_RET_OK THEN [ret |-> c.ret, m |-> c.m, now |-> NULL]
       ELSE [ret |-> RCUTILS_RET_OK, m |-> c.m, now |-> Ptr(total)]

\* Thread exit: the key's destructor runs on a non-null value (pthread clears
\* the value first); native thread-local storage goes with the thread.
__last_steady_timestamp_storage_t_destructor(m) ==
  IF m.key = "valid" /\ m.slot # NULL
  THEN [Deallocate(m, Deref(m.slot).self_allocator) EXCEPT !.slot = NULL]
  ELSE m

\* ------------------------------------------------------------ logging
\* The severity levels of rcutils/logging.h.
RCUTILS_LOG_SEVERITY_UNSET == 0
RCUTILS_LOG_SEVERITY_DEBUG == 10
RCUTILS_LOG_SEVERITY_INFO == 20
RCUTILS_LOG_SEVERITY_WARN == 30
RCUTILS_LOG_SEVERITY_ERROR == 40
RCUTILS_LOG_SEVERITY_FATAL == 50
Severities ==
  { RCUTILS_LOG_SEVERITY_UNSET, RCUTILS_LOG_SEVERITY_DEBUG, RCUTILS_LOG_SEVERITY_INFO,
    RCUTILS_LOG_SEVERITY_WARN, RCUTILS_LOG_SEVERITY_ERROR, RCUTILS_LOG_SEVERITY_FATAL }

\* A logger name is a string: the sequence of its characters.  A name a
\* caller passes is made of letters, underscores and the separator.
RCUTILS_LOGGING_SEPARATOR_CHAR == "."
NameChars == {"a", "_", RCUTILS_LOGGING_SEPARATOR_CHAR}
NamesOfLength(n) == [1..n -> NameChars]
LoggerNames == UNION { NamesOfLength(n) : n \in 0..MaxNameLen }

\* The first n characters of a string.
Prefix(name, n) == SubSeq(name, 1, n)

\* The map of logger names to severities with nothing in it.
EmptySeverities == [name \in {} |-> RCUTILS_LOG_SEVERITY_UNSET]

\* The globals before rcutils_logging_initialize.
NoLogging ==
  [ g_rcutils_logging_initialized |-> FALSE,
    g_rcutils_logging_default_logger_level |-> RCUTILS_LOG_SEVERITY_INFO,
    severities |-> EmptySeverities ]

\* l: the globals; the result: the globals after the call.
rcutils_logging_initialize(l) ==
  IF l.g_rcutils_logging_initialized THEN l
  ELSE [l EXCEPT !.g_rcutils_logging_initialized = TRUE]

\* Faulty variant: the severities set so far outlive the shutdown.
logging_shutdown_keeping_severities(l) ==
  [l EXCEPT !.g_rcutils_logging_initialized = FALSE]

rcutils_logging_shutdown(l) ==
  IF ~l.g_rcutils_logging_initialized THEN l
  ELSE [l EXCEPT !.severities = EmptySeverities,
                 !.g_rcutils_logging_initialized = FALSE]

rcutils_logging_set_default_logger_level(l, level) ==
  [l EXCEPT !.g_rcutils_logging_default_logger_level = level]

\* The empty name is the default logger.
rcutils_logging_set_logger_level(l, name, level) ==
  IF level \notin Severities THEN [ret |-> RCUTILS_RET_INVALID_ARGUMENT, l |-> l]
  ELSE IF name = << >>
    THEN [ret |-> RCUTILS_RET_OK,
          l |-> [l EXCEPT !.g_rcutils_logging_default_logger_level = level]]
  ELSE [ret |-> RCUTILS_RET_OK,
        l |-> [l EXCEPT !.severities =
                 [n \in (DOMAIN l.severities) \cup {name} |->
                    IF n = name THEN level ELSE l.severities[n]]]]

\* The level set on exactly this name (RCUTILS_LOG_SEVERITY_UNSET: none).
rcutils_logging_get_logger_level(l, name) ==
  IF name = << >> THEN l.g_rcutils_logging_default_logger_level
  ELSE IF name \in DOMAIN l.severities THEN l.severities[name]
  ELSE RCUTILS_LOG_SEVERITY_UNSET

\* The index of the last c among the first n characters of name (0: none).
rcutils_find_lastn(name, c, n) ==
  LET found == { i \in 1..n : name[i] = c } IN
  IF found = {} THEN 0 ELSE CHOOSE i \in found : \A j \in found : j <= i

\* The loop of rcutils_logging_get_logger_effective_level: cut the name at its
\* last separator until a name with a level is left; n: the characters left.
RECURSIVE effective_level_of_ancestors(_, _, _)
effective_level_of_ancestors(l, name, n) ==
  LET index_last_separator == rcutils_find_lastn(name, RCUTILS_LOGGING_SEPARATOR_CHAR, n) IN
  IF index_last_separator = 0 THEN l.g_rcutils_logging_default_logger_level
  ELSE LET severity == rcutils_logging_get_logger_level(l, Prefix(name, index_last_separator - 1)) IN
       IF severity # RCUTILS_LOG_SEVERITY_UNSET THEN severity
       ELSE effective_level_of_ancestors(l, name, index_last_separator - 1)

\* Faulty variant: any shorter name that starts the name counts as an ancestor.
RECURSIVE effective_level_of_prefixes(_, _, _)
effective_level_of_prefixes(l, name, n) ==
  IF n = 0 THEN l.g_rcutils_logging_default_logger_level
  ELSE LET severity == rcutils_logging_get_logger_level(l, Prefix(name, n - 1)) IN
       IF severity # RCUTILS_LOG_SEVERITY_UNSET THEN severity
       ELSE effective_level_of_prefixes(l, name, n - 1)
get_logger_effective_level_by_prefix(l, name) ==
  LET severity == rcutils_logging_get_logger_level(l, name) IN
  IF severity # RCUTILS_LOG_SEVERITY_UNSET THEN severity
  ELSE effective_level_of_prefixes(l, name, Len(name))

rcutils_logging_get_logger_effective_level(l, name) ==
  LET severity == rcutils_logging_get_logger_level(l, name) IN
  IF severity # RCUTILS_LOG_SEVERITY_UNSET THEN severity
  ELSE effective_level_of_ancestors(l, name, Len(name))

rcutils_logging_logger_is_enabled_for(l, name, severity) ==
  severity >= rcutils_logging_get_logger_effective_level(l, name)

\* Faulty variant: a message at the logger's level is dropped.
log_above_level_only(l, location, severity, name, format, args) ==
  IF severity > rcutils_logging_get_logger_effective_level(l, name)
  THEN << [location |-> location, level |-> severity, name |-> name,
           format |-> format, args |-> args] >>
  ELSE << >>

\* The calls of the output handler a rcutils_log call makes, in order.
rcutils_log(l, location, severity, name, format, args) ==
  IF rcutils_logging_logger_is_enabled_for(l, name, severity)
  THEN << [location |-> location, level |-> severity, name |-> name,
           format |-> format, args |-> args] >>
  ELSE << >>

\* No logging call is recorded.
NoLogEvent ==
  [ op |-> "none", name |-> << >>, level |-> RCUTILS_LOG_SEVERITY_UNSET,
    ret |-> RCUTILS_RET_OK, result |-> RCUTILS_LOG_SEVERITY_UNSET,
    location |-> NULL, format |-> "", args |-> << >>, handled |-> << >>,
    restart |-> FALSE, configured |-> {} ]

\* ------------------------------------------------------------ memory tools
\* The switches of memory_tools_common.cpp before any call.
NoMemoryTools ==
  [ g_monitoring_enabled |-> FALSE,
    malloc_expected |-> TRUE, realloc_expected |-> TRUE, free_expected |-> TRUE ]

\* What a hook does, in order: "callback" and "callback2" (the two
\* unexpected-operation callbacks), "null" (a call through a null callback
\* pointer), "crash" (that call ended the process), "printf" (a line of
\* tracing), "real" (the real malloc, realloc or free), "log" (the line about
\* the operation) and "stacktrace".
\* s: the switches; in_custom_callback: the call comes from inside a hook;
\* callback, callback2: the pointer is set; o: what callback2 returns, and
\* what a call through a null pointer does.
custom_malloc(s, in_custom_callback, callback, callback2, o) ==
  IF ~s.g_monitoring_enabled \/ in_custom_callback THEN << "real" >>
  ELSE LET should_print_stacktrace == ~s.malloc_expected /\ callback2 /\ o.returns IN
       (IF ~s.malloc_expected
        THEN (IF callback THEN << "printf", "callback" >> ELSE << >>)
             \o (IF callback2 THEN << "printf", "callback2" >> ELSE << >>)
        ELSE << "printf" >>)
       \o << "real" >>
       \o (IF ~s.malloc_expected
           THEN << "log" >> \o (IF should_print_stacktrace THEN << "stacktrace" >> ELSE << >>)
           ELSE << >>)

\* The second callback is called when the first one is set.
custom_realloc(s, in_custom_callback, callback, callback2, o) ==
  IF ~s.g_monitoring_enabled \/ in_custom_callback THEN << "real" >>
  ELSE LET second == ~s.realloc_expected /\ callback
           should_print_stacktrace ==
             second /\ (IF callback2 THEN o.returns ELSE o.null_returns)
           before ==
             (IF ~s.realloc_expected /\ callback THEN << "callback" >> ELSE << >>)
             \o (IF second THEN (IF callback2 THEN << "callback2" >> ELSE << "null" >>)
                           ELSE << >>)
       IN IF second /\ ~callback2 /\ o.null_crashes THEN before \o << "crash" >>
          ELSE before
               \o << "real" >>
               \o (IF ~s.realloc_expected
                   THEN << "log" >>
                        \o (IF should_print_stacktrace THEN << "stacktrace" >> ELSE << >>)
                   ELSE << >>)

custom_free(s, in_custom_callback, callback, callback2, o) ==
  IF ~s.g_monitoring_enabled \/ in_custom_callback THEN << "real" >>
  ELSE LET should_print_stacktrace == ~s.free_expected /\ callback2 /\ o.returns IN
       (IF ~s.free_expected
        THEN (IF callback THEN << "callback" >> ELSE << >>)
             \o (IF callback2 THEN << "callback2" >> ELSE << >>)
        ELSE << >>)
       \o (IF ~s.free_expected
           THEN << "log" >> \o (IF should_print_stacktrace THEN << "stacktrace" >> ELSE << >>)
           ELSE << >>)
       \o << "real" >>

\* assert_no_{malloc,realloc,free}_{begin,end}: expected is FALSE after begin.
assert_no(s, operation, expected) ==
  CASE operation = "malloc" -> [s EXCEPT !.malloc_expected = expected]
    [] operation = "realloc" -> [s EXCEPT !.realloc_expected = expected]
    [] OTHER -> [s EXCEPT !.free_expected = expected]

\* start_memory_monitoring (enabled) and stop_memory_monitoring.
set_memory_monitoring(s, enabled) == [s EXCEPT !.g_monitoring_enabled = enabled]

\* No memory call is recorded.
NoMemoryEvent ==
  [ op |-> "none", in_custom_callback |-> FALSE, unexpected |-> FALSE,
    callback |-> FALSE, callback2 |-> FALSE, did |-> << >> ]

\* ------------------------------------------------------------ observation
\* The timestamp the calling thread has on record, as the next check will
\* read it: INT64_MIN when the thread has no cell.
RecordedValue(t) ==
  CASE backend = NATIVE -> __last_steady_timestamp[t]
    [] backend = PTHREAD -> IF slot[t] # NULL THEN Deref(slot[t]).timestamp ELSE INT64_MIN
    [] OTHER -> INT64_MIN

\* The thread's cell exists (pthread: allocated and installed under the key).
HasCell(t) ==
  \/ backend = NATIVE
  \/ backend = PTHREAD /\ slot[t] # NULL /\ Deref(slot[t]).frees = 0

\* The allocator bound to the thread's cell ("none": no cell of the allocators).
BoundAllocator(t) ==
  IF backend = PTHREAD /\ slot[t] # NULL THEN Deref(slot[t]).self_allocator ELSE "none"

NoArgs ==
  [c |-> NULL, sample |-> NULL, allocator |-> "none", now_is_null |-> FALSE, fault |-> "none"]

\* What pthread_key_create, allocate and pthread_setspecific answer during
\* one call, and what undefined reads yield.
\* Every function returns at the first answer that is a failure, so at most
\* one answer of a call is one.
Oracles ==
  { o \in [ kc : KeyCreateResults, alloc : AllocateResults, inst : SetSpecificResults,
            reinst : SetSpecificResults, clr : SetSpecificResults,
            garbage : IF faults THEN {INT64_MIN, NS_PER_S} ELSE {INT64_MIN},
            wild : BOOLEAN ] :
      Cardinality({ f \in {"kc", "inst", "reinst", "clr"} : o[f] # PTHREAD_OK }
                  \cup (IF o.alloc THEN {} ELSE {"alloc"})) <= 1 }
\* The resource that is not to be had during a call with the answers o.
FaultOf(o) ==
  CASE o.kc # PTHREAD_OK -> "key"
    [] ~o.alloc -> "allocate"
    [] o.inst # PTHREAD_OK \/ o.reinst # PTHREAD_OK \/ o.clr # PTHREAD_OK -> "setspecific"
    [] OTHER -> "none"
NoOracle ==
  [ kc |-> PTHREAD_OK, alloc |-> TRUE, inst |-> PTHREAD_OK, reinst |-> PTHREAD_OK,
    clr |-> PTHREAD_OK, garbage |-> INT64_MIN, wild |-> FALSE ]
\* The answers a call that may create the cell depends on, ...
EnsureOracles == { o \in Oracles : o.reinst = PTHREAD_OK /\ o.clr = PTHREAD_OK
                                   /\ o.garbage = INT64_MIN /\ ~o.wild }
\* ... a check or steady read, ...
CheckOracles == { o \in Oracles : o.clr = PTHREAD_OK /\ ~o.wild }
\* ... and a call that destroys it.
DestroyOracles == { o \in Oracles : o.kc = PTHREAD_OK /\ o.alloc /\ o.inst = PTHREAD_OK
                                    /\ o.reinst = PTHREAD_OK /\ o.garbage = INT64_MIN }

\* The call op of thread t returned ret and left the machine m; now is what it
\* stored to *now and acc the candidate the monotonicity check accepted (NULL:
\* none).  Writes the machine back and records the call.
Records(t, op, args, ret, m, now, acc) ==
  /\ __key_init_once' = m.once
  /\ __last_steady_timestamp_storage_key' = m.key
  /\ __make_pthread_keys_ret' = m.kret
  /\ slot' = [slot EXCEPT ![t] = m.slot]
  /\ __last_steady_timestamp' = [__last_steady_timestamp EXCEPT ![t] = m.tls]
  /\ used' = [used EXCEPT ![t] = (op # "exit") /\ (@ \/ op \in {"init", "steady", "check"})]
  /\ afterFini' = [afterFini EXCEPT ![t] =
        IF op = "system" THEN @ ELSE (op = "fini" /\ ret = RCUTILS_RET_OK)]
  /\ accepted' = [accepted EXCEPT ![t] =
        LET base == IF m.nalloc > 0 \/ m.nfree > 0 \/ op = "exit" THEN INT64_MIN ELSE @
        IN IF acc # NULL THEN Max(base, Deref(acc)) ELSE base]
  /\ crashed' = (ret = CRASH)
  /\ key_creations' = IF m.once # __key_init_once THEN key_creations + 1 ELSE key_creations
  /\ UNCHANGED pc
  /\ ev' = [ t |-> t, op |-> op, ret |-> ret,
             c |-> args.c, sample |-> args.sample, allocator |-> args.allocator,
             now_is_null |-> args.now_is_null, now |-> now, fault |-> args.fault,
             pre |-> RecordedValue(t), preAccepted |-> accepted[t],
             preAllocator |-> BoundAllocator(t), had |-> HasCell(t),
             keyWas |-> __last_steady_timestamp_storage_key,
             preUsed |-> used[t], preAfterFini |-> afterFini[t],
             nalloc |-> m.nalloc, nfree |-> m.nfree, refree |-> m.refree,
             uncreated |-> m.uncreated,
             with |-> m.with, by |-> m.by ]

\* The same in a build: platform, backend and environment stay what they are.
Returns(t, op, args, ret, m, now, acc) ==
  /\ Records(t, op, args, ret, m, now, acc)
  /\ UNCHANGED << platform, backend, faults, twin, logging, log_ev, memory_tools, mem_ev >>

\* No call is recorded.
NoEvent ==
  [ t |-> 1, op |-> "none", ret |-> RCUTILS_RET_OK,
    c |-> NULL, sample |-> NULL, allocator |-> "none",
    now_is_null |-> FALSE, now |-> NULL, fault |-> "none",
    pre |-> INT64_MIN, preAccepted |-> INT64_MIN, preAllocator |-> "none",
    had |-> FALSE, keyWas |-> "invalid", preUsed |-> FALSE, preAfterFini |-> FALSE,
    nalloc |-> 0, nfree |-> 0, refree |-> FALSE, uncreated |-> FALSE,
    with |-> "none", by |-> "none" ]

\* No call is being compared.
NoTwin ==
  [ t |-> 1, op |-> "none", allocator |-> "none", sample |-> NULL,
    ret |-> RCUTILS_RET_OK, now |-> NULL ]

\* A thread that is not inside __ensure_last_steady_timestamp_storage.
Idle == [at |-> "idle", allocator |-> "none"]

\* Thread t can make a call: it runs, and the last call's record was taken.
Running(t) == alive[t] /\ ~crashed /\ ev.op = "none"

\* The calls a thread can make of a clock read: with a null destination (the
\* clock is then not read), or with a destination and what the clock delivers.
ClockCalls(samples) ==
  { [now_is_null |-> TRUE, sample |-> NULL] }
  \cup { [now_is_null |-> FALSE, sample |-> Ptr(ts)] : ts \in samples }
SampleOf(call) ==
  IF call.sample # NULL THEN Deref(call.sample)
  ELSE [tv_sec |-> 0, tv_nsec |-> 0, ft |-> 0, count |-> 0, freq |-> 1]

\* The steady and the system read of the platform, on what its clock delivered.
SteadyRead(m, call, o) ==
  IF platform = WIN32
  THEN rcutils_steady_time_now_win32(m, call.now_is_null, SampleOf(call), o)
  ELSE rcutils_steady_time_now(m, call.now_is_null, SampleOf(call), o)
SystemRead(m, call) ==
  IF platform = WIN32
  THEN rcutils_system_time_now_win32(m, call.now_is_null, SampleOf(call))
  ELSE rcutils_system_time_now(m, call.now_is_null, SampleOf(call))
SteadySamples == IF platform = WIN32 THEN PerformanceCounts ELSE ClockSamples
SystemSamples == IF platform = WIN32 THEN FileTimes ELSE ClockSamples

\* ------------------------------------------------------------ actions
SteadyTimeNow(t) ==
  /\ Running(t)
  /\ \E call \in ClockCalls(SteadySamples), o \in CheckOracles :
       \E r \in { SteadyRead(Machine(t), call, o) } :
         Returns(t, "steady",
                 [NoArgs EXCEPT !.sample = call.sample, !.now_is_null = call.now_is_null],
                 r.ret, r.m, r.now,
                 IF r.ret = RCUTILS_RET_OK THEN r.now ELSE NULL)
  /\ UNCHANGED alive

SystemTimeNow(t) ==
  /\ Running(t)
  /\ \E call \in ClockCalls(SystemSamples) :
       \E r \in { SystemRead(Machine(t), call) } :
         Returns(t, "system",
                 [NoArgs EXCEPT !.sample = call.sample, !.now_is_null = call.now_is_null],
                 r.ret, r.m, r.now, NULL)
  /\ UNCHANGED alive

\* A direct call of the private check, as the repository's test makes.
CheckMonotonicity(t) ==
  /\ Running(t)
  /\ \E c \in Candidates, o \in CheckOracles :
       \E r \in { __rcutils_check_steady_time_monotonicity_thread_local(Machine(t), c, o) } :
         Returns(t, "check", [NoArgs EXCEPT !.c = Ptr(c)], r.ret, r.m, NULL,
                 IF r.ret = RCUTILS_RET_OK THEN Ptr(c) ELSE NULL)
  /\ UNCHANGED alive

ThreadSpecificInit(t) ==
  /\ Running(t)
  /\ \E a \in Allocators, o \in EnsureOracles :
       \E r \in { rcutils_steady_time_now_thread_specific_init(Machine(t), a, o) } :
         Returns(t, "init", [NoArgs EXCEPT !.allocator = a, !.fault = FaultOf(o)],
                 r.ret, r.m, NULL, NULL)
  /\ UNCHANGED alive

ThreadSpecificFini(t) ==
  /\ Running(t)
  /\ \E o \in DestroyOracles :
       \E r \in { rcutils_steady_time_now_thread_specific_fini(Machine(t), o) } :
         Returns(t, "fini", NoArgs, r.ret, r.m, NULL, NULL)
  /\ UNCHANGED alive

\* The thread ends; its thread-local storage ends with it.
ThreadExit(t) ==
  /\ Running(t)
  /\ \E m \in { __last_steady_timestamp_storage_t_destructor(Machine(t)) } :
       Returns(t, "exit", NoArgs, RCUTILS_RET_OK,
               [m EXCEPT !.tls = INT64_MIN, !.slot = NULL], NULL, NULL)
  /\ alive' = [alive EXCEPT ![t] = FALSE]

\* The caller takes the result of the call that returned; the record of the
\* call is dropped.  (A crashed process takes no more steps.)
TakeResult ==
  /\ ev.op # "none"
  /\ ~crashed
  /\ ev' = NoEvent
  /\ UNCHANGED << platform, backend, faults, __key_init_once, __last_steady_timestamp_storage_key,
                  __make_pthread_keys_ret, alive, __last_steady_timestamp, slot,
                  accepted, used, afterFini, crashed, pc, key_creations, twin, logging, log_ev, memory_tools, mem_ev >>

\* ------------------------------------------------------------ specifications
InitCommon ==
  /\ platform \in Platforms
  /\ backend \in (IF platform = WIN32 THEN {DISABLED, NATIVE} ELSE Backends)
  /\ __key_init_once = "INIT"
  /\ __last_steady_timestamp_storage_key = "invalid"
  /\ __make_pthread_keys_ret = RCUTILS_RET_OK
  /\ alive = [t \in Threads |-> TRUE]
  /\ __last_steady_timestamp = [t \in Threads |-> INT64_MIN]
  /\ slot = [t \in Threads |-> NULL]
  /\ used = [t \in Threads |-> FALSE]
  /\ afterFini = [t \in Threads |-> FALSE]
  /\ accepted = [t \in Threads |-> INT64_MIN]
  /\ crashed = FALSE
  /\ pc = [t \in Threads |-> Idle]
  /\ key_creations = 0
  /\ twin = NoTwin
  /\ logging = NoLogging
  /\ log_ev = NoLogEvent
  /\ memory_tools = NoMemoryTools
  /\ mem_ev = NoMemoryEvent
  /\ ev = NoEvent

\* Normal operation: the OS and the allocators have the resources they are asked for.
Init == InitCommon /\ faults = FALSE

Next ==
  \/ \E t \in Threads :
       \/ SteadyTimeNow(t)
       \/ SystemTimeNow(t)
       \/ CheckMonotonicity(t)
       \/ ThreadSpecificInit(t)
       \/ ThreadSpecificFini(t)
       \/ ThreadExit(t)
  \/ TakeResult

Spec == Init /\ [][Next]_vars

\* The same program where resources can run out.
InitFaults == InitCommon /\ faults = TRUE
SpecFaults == InitFaults /\ [][Next]_vars

\* The reads alone, where resources can run out.
NextReads ==
  \/ \E t \in Threads :
       \/ SteadyTimeNow(t)
       \/ SystemTimeNow(t)
  \/ TakeResult

SpecReads == InitFaults /\ [][NextReads]_vars

\* The creation of the thread-specific storage of the pthread backend where
\* resources can run out: inits and steady reads of two samples.
CreatingSamples == { [tv_sec |-> 0, tv_nsec |-> 1], [tv_sec |-> 1, tv_nsec |-> 0] }

SteadyTimeNowCreating(t) ==
  /\ Running(t)
  /\ \E ts \in CreatingSamples, o \in CheckOracles :
       \E r \in { rcutils_steady_time_now(Machine(t), FALSE, ts, o) } :
         Returns(t, "steady",
                 [NoArgs EXCEPT !.sample = Ptr(ts), !.fault = FaultOf(o)],
                 r.ret, r.m, r.now,
                 IF r.ret = RCUTILS_RET_OK THEN r.now ELSE NULL)
  /\ UNCHANGED alive

InitStorage == InitFaults /\ platform = UNIX /\ backend = PTHREAD

NextStorage ==
  \/ \E t \in Threads :
       \/ ThreadSpecificInit(t)
       \/ SteadyTimeNowCreating(t)
  \/ TakeResult

SpecStorage == InitStorage /\ [][NextStorage]_vars

\* Its destruction where resources can run out: cells are created by init
\* and released by fini and by the key's destructor at thread exit.
NextDestroy ==
  \/ \E t \in Threads :
       \/ ThreadSpecificInit(t)
       \/ ThreadSpecificFini(t)
       \/ ThreadExit(t)
  \/ TakeResult

SpecDestroy == InitStorage /\ [][NextDestroy]_vars

\* ------------------------------------------------------------ two builds side by side
\* The build with the native thread-local backend and the build with the
\* pthread backend, fed the same calls: backend says whose turn it is.  The
\* native build keeps its state in __last_steady_timestamp, the pthread build
\* in the key and the slots; a call is answered by the native build first
\* (twin), then by the pthread build (ev).
TwinCalls ==
  { [op |-> "init", allocator |-> a, sample |-> NULL] : a \in Allocators }
  \cup { [op |-> "fini", allocator |-> "none", sample |-> NULL] }
  \cup { [op |-> "steady", allocator |-> "none", sample |-> Ptr(ts)] : ts \in CreatingSamples }

\* The call in the build whose turn it is; o: the answers of its environment.
TwinRun(m, call, o) ==
  CASE call.op = "init" ->
         LET r == rcutils_steady_time_now_thread_specific_init(m, call.allocator, o)
         IN [ret |-> r.ret, m |-> r.m, now |-> NULL]
    [] call.op = "fini" ->
         LET r == rcutils_steady_time_now_thread_specific_fini(m, o)
         IN [ret |-> r.ret, m |-> r.m, now |-> NULL]
    [] OTHER -> rcutils_steady_time_now(m, FALSE, Deref(call.sample), o)

TwinNative(t) ==
  /\ backend = NATIVE /\ Running(t)
  /\ \E call \in TwinCalls :
       \E r \in { TwinRun(Machine(t), call, NoOracle) } :
         /\ __last_steady_timestamp' = [__last_steady_timestamp EXCEPT ![t] = r.m.tls]
         /\ twin' = [ t |-> t, op |-> call.op, allocator |-> call.allocator,
                      sample |-> call.sample, ret |-> r.ret, now |-> r.now ]
  /\ backend' = PTHREAD
  /\ UNCHANGED << platform, faults, __key_init_once, __last_steady_timestamp_storage_key,
                  __make_pthread_keys_ret, alive, slot, accepted, used, afterFini,
                  crashed, pc, key_creations, ev, logging, log_ev, memory_tools, mem_ev >>

TwinPthread(t) ==
  /\ backend = PTHREAD /\ Running(t)
  /\ twin.op # "none" /\ twin.t = t
  /\ \E o \in (IF twin.op = "fini" THEN DestroyOracles ELSE CheckOracles) :
       \E r \in { TwinRun(Machine(t), twin, o) } :
         Records(t, twin.op,
                 [NoArgs EXCEPT !.sample = twin.sample, !.allocator = twin.allocator],
                 r.ret, r.m, r.now,
                 IF r.ret = RCUTILS_RET_OK THEN r.now ELSE NULL)
  /\ backend' = NATIVE
  /\ UNCHANGED << platform, faults, alive, twin, logging, log_ev, memory_tools, mem_ev >>

InitTwin == InitCommon /\ platform = UNIX /\ backend = NATIVE /\ faults = FALSE

NextTwin ==
  \/ \E t \in Threads :
       \/ TwinNative(t)
       \/ TwinPthread(t)
  \/ TakeResult

SpecTwin == InitTwin /\ [][NextTwin]_vars

\* ------------------------------------------------------------ the logging calls
\* What the logging calls leave alone.
time_vars ==
  << platform, backend, faults, __key_init_once, __last_steady_timestamp_storage_key,
     __make_pthread_keys_ret, alive, __last_steady_timestamp, slot,
     accepted, used, afterFini, crashed, pc, key_creations, twin, ev >>

\* The logger names that are given a level, the levels they are given (the
\* last one is no severity), and the severities and locations of messages.
ConfiguredNames == { << >>, <<"a">>, <<"a", ".">>, <<"a", ".", "a">> }
SetLevels ==
  { RCUTILS_LOG_SEVERITY_UNSET, RCUTILS_LOG_SEVERITY_DEBUG, RCUTILS_LOG_SEVERITY_WARN,
    RCUTILS_LOG_SEVERITY_FATAL + 1 }
MessageSeverities ==
  { RCUTILS_LOG_SEVERITY_DEBUG, RCUTILS_LOG_SEVERITY_INFO, RCUTILS_LOG_SEVERITY_WARN }
Locations == { NULL, Ptr([function_name |-> "func", file_name |-> "file", line_number |-> 42]) }

\* The names with a level in the map.
Configured(l) ==
  { n \in DOMAIN l.severities : l.severities[n] # RCUTILS_LOG_SEVERITY_UNSET }

\* The caller has read the last logging call's record (whether it was a
\* shutdown, and of what, is remembered until the next call).
TakeLogResult ==
  /\ log_ev.op # "none"
  /\ log_ev' = IF log_ev.op = "shutdown"
               THEN [NoLogEvent EXCEPT !.restart = TRUE, !.configured = log_ev.configured]
               ELSE NoLogEvent
  /\ UNCHANGED << logging, time_vars, memory_tools, mem_ev >>

LoggingInitialize ==
  /\ log_ev.op = "none"
  /\ logging' = rcutils_logging_initialize(logging)
  /\ log_ev' = [NoLogEvent EXCEPT
                  !.op = "initialize",
                  !.restart = log_ev.restart,
                  !.configured = log_ev.configured]
  /\ UNCHANGED << time_vars, memory_tools, mem_ev >>

LoggingShutdown ==
  /\ log_ev.op = "none"
  /\ logging' = rcutils_logging_shutdown(logging)
  /\ log_ev' = [NoLogEvent EXCEPT !.op = "shutdown", !.configured = Configured(logging)]
  /\ UNCHANGED << time_vars, memory_tools, mem_ev >>

SetDefaultLoggerLevel ==
  /\ log_ev.op = "none" /\ logging.g_rcutils_logging_initialized
  /\ \E level \in {RCUTILS_LOG_SEVERITY_INFO, RCUTILS_LOG_SEVERITY_WARN} :
       /\ logging' = rcutils_logging_set_default_logger_level(logging, level)
       /\ log_ev' = [NoLogEvent EXCEPT !.op = "set_default", !.level = level]
  /\ UNCHANGED << time_vars, memory_tools, mem_ev >>

SetLoggerLevel ==
  /\ log_ev.op = "none" /\ logging.g_rcutils_logging_initialized
  /\ \E name \in ConfiguredNames, level \in SetLevels :
       \E r \in { rcutils_logging_set_logger_level(logging, name, level) } :
         /\ logging' = r.l
         /\ log_ev' = [NoLogEvent EXCEPT !.op = "set", !.name = name, !.level = level,
                                          !.ret = r.ret]
  /\ UNCHANGED << time_vars, memory_tools, mem_ev >>

GetLoggerEffectiveLevel ==
  /\ log_ev.op = "none" /\ logging.g_rcutils_logging_initialized
  /\ \E name \in LoggerNames :
       log_ev' = [NoLogEvent EXCEPT
                    !.op = "effective", !.name = name,
                    !.result = rcutils_logging_get_logger_effective_level(logging, name)]
  /\ UNCHANGED << logging, time_vars, memory_tools, mem_ev >>

Log ==
  /\ log_ev.op = "none" /\ logging.g_rcutils_logging_initialized
  /\ \E name \in LoggerNames, severity \in MessageSeverities, location \in Locations :
       log_ev' = [NoLogEvent EXCEPT
                    !.op = "log", !.name = name, !.level = severity,
                    !.location = location, !.format = "message %d", !.args = <<11>>,
                    !.handled = rcutils_log(logging, location, severity, name,
                                            "message %d", <<11>>)]
  /\ UNCHANGED << logging, time_vars, memory_tools, mem_ev >>

InitLogging == InitCommon /\ platform = UNIX /\ backend = NATIVE /\ faults = FALSE

NextLogging ==
  \/ LoggingInitialize
  \/ LoggingShutdown
  \/ SetDefaultLoggerLevel
  \/ SetLoggerLevel
  \/ GetLoggerEffectiveLevel
  \/ Log
  \/ TakeLogResult

SpecLogging == InitLogging /\ [][NextLogging]_vars

\* ------------------------------------------------------------ the memory calls
MemoryOperations == {"malloc", "realloc", "free"}
CallbackOracles == [returns : BOOLEAN, null_returns : BOOLEAN, null_crashes : BOOLEAN]

\* The operation is not expected now.
Unexpected(s, operation) ==
  CASE operation = "malloc" -> ~s.malloc_expected
    [] operation = "realloc" -> ~s.realloc_expected
    [] OTHER -> ~s.free_expected

\* The caller sets a switch.
SetMemorySwitch ==
  /\ mem_ev.op = "none"
  /\ \/ \E enabled \in BOOLEAN : memory_tools' = set_memory_monitoring(memory_tools, enabled)
     \/ \E operation \in MemoryOperations, expected \in BOOLEAN :
          memory_tools' = assert_no(memory_tools, operation, expected)
  /\ UNCHANGED << mem_ev, time_vars, logging, log_ev >>

\* The program calls malloc, realloc or free.
MemoryCall ==
  /\ mem_ev.op = "none"
  /\ \E operation \in MemoryOperations, in_custom_callback \in BOOLEAN,
        callback \in BOOLEAN, callback2 \in BOOLEAN, o \in CallbackOracles :
       mem_ev' = [ op |-> operation, in_custom_callback |-> in_custom_callback,
                   unexpected |-> /\ memory_tools.g_monitoring_enabled
                                  /\ ~in_custom_callback
                                  /\ Unexpected(memory_tools, operation),
                   callback |-> callback, callback2 |-> callback2,
                   did |-> CASE operation = "malloc" ->
                                  custom_malloc(memory_tools, in_custom_callback,
                                                callback, callback2, o)
                             [] operation = "realloc" ->
                                  custom_realloc(memory_tools, in_custom_callback,
                                                 callback, callback2, o)
                             [] OTHER ->
                                  custom_free(memory_tools, in_custom_callback,
                                              callback, callback2, o) ]
  /\ UNCHANGED << memory_tools, time_vars, logging, log_ev >>

TakeMemoryResult ==
  /\ mem_ev.op # "none"
  /\ mem_ev' = NoMemoryEvent
  /\ UNCHANGED << memory_tools, time_vars, logging, log_ev >>

InitMemory == InitCommon /\ platform = UNIX /\ backend = NATIVE /\ faults = FALSE

NextMemory ==
  \/ SetMemorySwitch
  \/ MemoryCall
  \/ TakeMemoryResult

SpecMemory == InitMemory /\ [][NextMemory]_vars

\* ------------------------------------------------------------ the one-time key creation, step by step
\* __ensure_last_steady_timestamp_storage taken apart at its pthread_once
\* call, for threads that run it concurrently.  A thread enters it from init
\* (any allocator) or from a steady read (the default allocator).

\* Faulty variant: the function goes to its slot without the pthread_once call.
ensure_call_skipping_once(t) ==
  /\ alive[t] /\ ~crashed /\ pc[t].at = "idle"
  /\ \E a \in Allocators : pc' = [pc EXCEPT ![t] = [at |-> "rest", allocator |-> a]]
  /\ UNCHANGED << platform, backend, faults, __key_init_once,
                  __last_steady_timestamp_storage_key, __make_pthread_keys_ret, alive,
                  __last_steady_timestamp, slot, accepted, used, afterFini, crashed,
                  key_creations, ev, twin, logging, log_ev, memory_tools, mem_ev >>

EnsureCall(t) ==
  /\ alive[t] /\ ~crashed /\ pc[t].at = "idle"
  /\ \E a \in Allocators : pc' = [pc EXCEPT ![t] = [at |-> "once", allocator |-> a]]
  /\ UNCHANGED << platform, backend, faults, __key_init_once,
                  __last_steady_timestamp_storage_key, __make_pthread_keys_ret, alive,
                  __last_steady_timestamp, slot, accepted, used, afterFini, crashed,
                  key_creations, ev, twin, logging, log_ev, memory_tools, mem_ev >>

\* pthread_once: the first caller starts the routine; ...
OnceStart(t) ==
  /\ pc[t].at = "once" /\ __key_init_once = "INIT"
  /\ __key_init_once' = "RUNNING"
  /\ pc' = [pc EXCEPT ![t].at = "make_keys"]
  /\ UNCHANGED << platform, backend, faults, __last_steady_timestamp_storage_key,
                  __make_pthread_keys_ret, alive, __last_steady_timestamp, slot,
                  accepted, used, afterFini, crashed, key_creations, ev, twin, logging, log_ev, memory_tools, mem_ev >>

\* ... the routine, __make_pthread_keys, creates the key; ...
OnceRun(t) ==
  /\ pc[t].at = "make_keys"
  /\ \E r \in KeyCreateResults :
       \E m \in { __make_pthread_keys(Machine(t), r) } :
         /\ __last_steady_timestamp_storage_key' = m.key
         /\ __make_pthread_keys_ret' = m.kret
  /\ key_creations' = key_creations + 1
  /\ pc' = [pc EXCEPT ![t].at = "made"]
  /\ UNCHANGED << platform, backend, faults, __key_init_once, alive,
                  __last_steady_timestamp, slot, accepted, used, afterFini, crashed,
                  ev, twin, logging, log_ev, memory_tools, mem_ev >>

\* ... and pthread_once returns to the caller that ran it.
OnceFinish(t) ==
  /\ pc[t].at = "made"
  /\ __key_init_once' = "DONE"
  /\ pc' = [pc EXCEPT ![t].at = "rest"]
  /\ UNCHANGED << platform, backend, faults, __last_steady_timestamp_storage_key,
                  __make_pthread_keys_ret, alive, __last_steady_timestamp, slot,
                  accepted, used, afterFini, crashed, key_creations, ev, twin, logging, log_ev, memory_tools, mem_ev >>

\* pthread_once returns to any other caller once the routine has completed;
\* while it runs, such a caller waits.
OncePass(t) ==
  /\ pc[t].at = "once" /\ __key_init_once = "DONE"
  /\ pc' = [pc EXCEPT ![t].at = "rest"]
  /\ UNCHANGED << platform, backend, faults, __key_init_once,
                  __last_steady_timestamp_storage_key, __make_pthread_keys_ret, alive,
                  __last_steady_timestamp, slot, accepted, used, afterFini, crashed,
                  key_creations, ev, twin, logging, log_ev, memory_tools, mem_ev >>

\* Faulty variant: the function starts over when the key creation has failed.
ensure_rest_trying_again(t) ==
  /\ pc[t].at = "rest"
  /\ \E o \in EnsureOracles :
       \E r \in { __ensure_last_steady_timestamp_storage(Machine(t), pc[t].allocator, o) } :
         /\ slot' = [slot EXCEPT ![t] = r.m.slot]
         /\ __key_init_once' = r.m.once
         /\ __last_steady_timestamp_storage_key' = r.m.key
         /\ __make_pthread_keys_ret' = r.m.kret
         /\ key_creations' =
              IF r.m.once # __key_init_once THEN key_creations + 1 ELSE key_creations
  /\ pc' = IF __make_pthread_keys_ret # RCUTILS_RET_OK
           THEN [pc EXCEPT ![t].at = "once"]
           ELSE [pc EXCEPT ![t] = Idle]
  /\ UNCHANGED << platform, backend, faults, alive, __last_steady_timestamp,
                  accepted, used, afterFini, crashed, ev, twin, logging, log_ev, memory_tools, mem_ev >>

\* The rest of the function: the result of the key creation, the read of the
\* slot, and the allocation and installation of a cell.
EnsureRest(t) ==
  /\ pc[t].at = "rest"
  /\ \E o \in EnsureOracles :
       \E r \in { __ensure_last_steady_timestamp_storage(Machine(t), pc[t].allocator, o) } :
         /\ slot' = [slot EXCEPT ![t] = r.m.slot]
         /\ __key_init_once' = r.m.once
         /\ __last_steady_timestamp_storage_key' = r.m.key
         /\ __make_pthread_keys_ret' = r.m.kret
         /\ key_creations' =
              IF r.m.once # __key_init_once THEN key_creations + 1 ELSE key_creations
  /\ pc' = [pc EXCEPT ![t] = Idle]
  /\ UNCHANGED << platform, backend, faults, alive, __last_steady_timestamp,
                  accepted, used, afterFini, crashed, ev, twin, logging, log_ev, memory_tools, mem_ev >>

\* The pthread backend, with or without resources running out.
InitOnce ==
  /\ platform = UNIX /\ backend = PTHREAD /\ faults \in BOOLEAN
  /\ __key_init_once = "INIT"
  /\ __last_steady_timestamp_storage_key = "invalid"
  /\ __make_pthread_keys_ret = RCUTILS_RET_OK
  /\ alive = [t \in Threads |-> TRUE]
  /\ __last_steady_timestamp = [t \in Threads |-> INT64_MIN]
  /\ slot = [t \in Threads |-> NULL]
  /\ used = [t \in Threads |-> FALSE]
  /\ afterFini = [t \in Threads |-> FALSE]
  /\ accepted = [t \in Threads |-> INT64_MIN]
  /\ crashed = FALSE
  /\ pc = [t \in Threads |-> Idle]
  /\ key_creations = 0
  /\ twin = NoTwin
  /\ logging = NoLogging
  /\ log_ev = NoLogEvent
  /\ memory_tools = NoMemoryTools
  /\ mem_ev = NoMemoryEvent
  /\ ev = NoEvent

NextOnce ==
  \E t \in Threads :
    \/ EnsureCall(t)
    \/ OnceStart(t)
    \/ OnceRun(t)
    \/ OnceFinish(t)
    \/ OncePass(t)
    \/ EnsureRest(t)

SpecOnce == InitOnce /\ [][NextOnce]_vars

\* The same under fair scheduling: a thread that can take its next step inside
\* the function takes it.  (Whether a thread calls at all is up to it.)
SpecOnceFair ==
  /\ SpecOnce
  /\ \A t \in Threads :
       /\ WF_vars(OnceStart(t))
       /\ WF_vars(OnceRun(t))
       /\ WF_vars(OnceFinish(t))
       /\ WF_vars(OncePass(t))
       /\ WF_vars(EnsureRest(t))

\* ------------------------------------------------------------ the conversion on every timespec
\* The reads of time_unix.c on any timespec the clock call can leave behind.
SteadyTimeNowOnAny(t) ==
  /\ Running(t)
  /\ \E call \in ClockCalls(AnyClockSamples), o \in CheckOracles :
       \E r \in { rcutils_steady_time_now(Machine(t), call.now_is_null, SampleOf(call), o) } :
         Returns(t, "steady",
                 [NoArgs EXCEPT !.sample = call.sample, !.now_is_null = call.now_is_null],
                 r.ret, r.m, r.now,
                 IF r.ret = RCUTILS_RET_OK THEN r.now ELSE NULL)
  /\ UNCHANGED alive

SystemTimeNowOnAny(t) ==
  /\ Running(t)
  /\ \E call \in ClockCalls(AnyClockSamples) :
       \E r \in { rcutils_system_time_now(Machine(t), call.now_is_null, SampleOf(call)) } :
         Returns(t, "system",
                 [NoArgs EXCEPT !.sample = call.sample, !.now_is_null = call.now_is_null],
                 r.ret, r.m, r.now, NULL)
  /\ UNCHANGED alive

InitConv == InitCommon /\ platform = UNIX /\ faults = FALSE

NextConv ==
  \/ \E t \in Threads :
       \/ SteadyTimeNowOnAny(t)
       \/ SystemTimeNowOnAny(t)
  \/ TakeResult

SpecConv == InitConv /\ [][NextConv]_vars

\* ------------------------------------------------------------ the conversion on every performance count
\* Performance counts of whole_seconds seconds and remainder_count ticks at
\* frequencies of 1, 3 and some tens of ticks a second: small ones, the
\* largest seconds that fit, and ones whose seconds, whose remainder or whose
\* sum overflows.
AnyPerformanceCounts ==
  { sm \in UNION { { [count |-> whole_seconds * freq + remainder_count, freq |-> freq] :
                       whole_seconds \in {0, MaxSeconds, MaxSeconds + 1},
                       remainder_count \in {0, 1, MaxSeconds, freq - 1} \cap (0..(freq - 1)) } :
                   freq \in {1, 3, MaxSeconds + 8} } :
      sm.count <= INT64_MAX }

\* The steady read of time_win32.c on any of them.
SteadyTimeNowOnAnyCount(t) ==
  /\ Running(t)
  /\ \E call \in ClockCalls(AnyPerformanceCounts), o \in CheckOracles :
       \E r \in { rcutils_steady_time_now_win32(Machine(t), call.now_is_null,
                                                SampleOf(call), o) } :
         Returns(t, "steady",
                 [NoArgs EXCEPT !.sample = call.sample, !.now_is_null = call.now_is_null],
                 r.ret, r.m, r.now,
                 IF r.ret = RCUTILS_RET_OK THEN r.now ELSE NULL)
  /\ UNCHANGED alive

InitCount == InitCommon /\ platform = WIN32 /\ faults = FALSE

NextCount ==
  \/ \E t \in Threads : SteadyTimeNowOnAnyCount(t)
  \/ TakeResult

SpecCount == InitCount /\ [][NextCount]_vars

\* ------------------------------------------------------------ properties
\* The nanoseconds a timespec stands for, in unbounded arithmetic.
Nanoseconds(ts) == ts.tv_sec * NS_PER_S + ts.tv_nsec

\* A sample that is not negative and whose nanoseconds an int64_t holds.
Converts(ts) == ts.tv_sec >= 0 /\ ts.tv_nsec >= 0 /\ Nanoseconds(ts) <= INT64_MAX

\* A timespec that is negative as the sources have it.
Negative(ts) == ts.tv_sec < 0 \/ (ts.tv_sec = 0 /\ ts.tv_nsec < 0)

\* The nanoseconds a steady sample of the platform stands for (a performance
\* count: count seconds divided by the frequency), and a sufficient condition
\* for it to convert: as above for a timespec; for a performance count, that
\* it is not negative and that even its count of seconds fits.
SteadyValue(sm) ==
  IF platform = WIN32 THEN (sm.count * NS_PER_S) \div sm.freq ELSE Nanoseconds(sm)
SteadyConverts(sm) ==
  IF platform = WIN32
  THEN sm.freq > 0 /\ sm.count >= 0 /\ sm.count * NS_PER_S <= INT64_MAX
  ELSE Converts(sm)

\* C1: with sanity checks enabled, a value rcutils_steady_time_now returns
\* with RCUTILS_RET_OK is never smaller than any value the thread's cell has
\* accepted before (so never smaller than a value returned before, no fini in
\* between), and a sample that converts to less than the last accepted value
\* yields RCUTILS_NON_MONOTONIC_STEADY_TIME and no value.
C1_SteadyReadsNeverDecrease ==
  (backend # DISABLED /\ ev.op = "steady") =>
    /\ ev.ret = RCUTILS_RET_OK => (ev.now # NULL /\ Deref(ev.now) >= ev.preAccepted)
    /\ (ev.sample # NULL /\ SteadyConverts(Deref(ev.sample))
          /\ SteadyValue(Deref(ev.sample)) < ev.preAccepted)
       => (ev.ret = RCUTILS_NON_MONOTONIC_STEADY_TIME /\ ev.now = NULL)

\* A steady read whose sample is older than a value accepted before is refused.
C1_Witness ==
  /\ platform = UNIX /\ backend = PTHREAD /\ ev.op = "steady" /\ ev.preUsed
  /\ ev.preAccepted = NS_PER_S
  /\ ev.sample = Ptr([tv_sec |-> 0, tv_nsec |-> 1])
  /\ ev.ret = RCUTILS_NON_MONOTONIC_STEADY_TIME

C3_DuplicateIsRejected ==
  (backend # DISABLED /\ ev.op = "check" /\ ev.preAccepted > INT64_MIN
     /\ Deref(ev.c) <= ev.pre)
  => ev.ret = RCUTILS_NON_MONOTONIC_STEADY_TIME

C6_DeallocatedByItsAllocator ==
  backend = PTHREAD =>
    /\ (ev.nfree > 0) => (ev.with = ev.by /\ ev.with \in Allocators)
    /\ (ev.nalloc > 0 /\ ev.ret = RCUTILS_RET_OK) =>
         Deref(slot[ev.t]).by =
           (IF ev.op = "init" THEN ev.allocator ELSE rcutils_get_default_allocator)
    /\ \A t \in Threads :
         slot[t] # NULL => Deref(slot[t]).self_allocator = Deref(slot[t]).by

\* The destructor released, with the custom allocator, a cell init had made.
C6_Witness ==
  /\ backend = PTHREAD /\ ev.op = "exit"
  /\ ev.nfree = 1 /\ ev.with = CUSTOM_ALLOCATOR /\ ev.by = CUSTOM_ALLOCATOR

\* C7: init on a thread whose cell exists returns RCUTILS_RET_OK, allocates
\* and releases nothing and leaves the cell's timestamp and its bound
\* allocator as they were; the allocator of an init takes effect only when the
\* thread has no cell.
C7_InitIsIdempotent ==
  ev.op = "init" =>
    /\ (ev.had \/ backend # PTHREAD) =>
         /\ ev.ret = RCUTILS_RET_OK
         /\ ev.nalloc = 0 /\ ev.nfree = 0
         /\ RecordedValue(ev.t) = ev.pre
         /\ BoundAllocator(ev.t) = ev.preAllocator
    /\ (backend = PTHREAD /\ ~ev.had /\ ev.ret = RCUTILS_RET_OK) =>
         BoundAllocator(ev.t) = ev.allocator

\* An init with the custom allocator on a thread whose cell holds a timestamp
\* and is bound to the default allocator.
C7_Witness ==
  /\ backend = PTHREAD /\ ev.op = "init" /\ ev.had
  /\ ev.allocator = CUSTOM_ALLOCATOR /\ ev.preAllocator = DEFAULT_ALLOCATOR
  /\ ev.pre = 1
  /\ ev.ret = RCUTILS_RET_OK

C9_FiniBeforeInitIsNoOp ==
  (ev.op = "fini" /\ ~ev.preUsed) =>
    /\ ev.ret = RCUTILS_RET_OK
    /\ ev.nfree = 0 /\ ev.nalloc = 0
    /\ RecordedValue(ev.t) = ev.pre
    /\ ~crashed

\* C10: with sanity checks enabled, the steady read that follows a fini
\* starts from no prior sample: whatever sample converts is returned with
\* RCUTILS_RET_OK, also one smaller than the values accepted before the fini.
C10_ReadAfterFiniStartsAfresh ==
  (backend # DISABLED /\ ev.op = "steady" /\ ev.preAfterFini
     /\ ev.sample # NULL /\ SteadyConverts(Deref(ev.sample)))
  => (ev.ret = RCUTILS_RET_OK /\ ev.now = Ptr(SteadyValue(Deref(ev.sample))))

\* C11: pthread backend: a thread without a cell (never allocated, or
\* released) gets one only by init, a steady read or the check, which allocate
\* it; a thread with a cell loses it only by fini or thread exit, which
\* release it; every other call on a thread with a cell leaves that cell in
\* place: nothing allocated, nothing released, same bound allocator.
C11_CellLifeCycle ==
  (backend = PTHREAD /\ ev.op # "none") =>
    /\ (ev.had /\ ev.op \notin {"fini", "exit"}) =>
         /\ HasCell(ev.t)
         /\ ev.nalloc = 0 /\ ev.nfree = 0
         /\ BoundAllocator(ev.t) = ev.preAllocator
    /\ (~ev.had /\ HasCell(ev.t)) =>
         (ev.op \in {"init", "steady", "check"} /\ ev.nalloc = 1 /\ ev.nfree = 0)
    /\ (ev.had /\ ~HasCell(ev.t)) =>
         (ev.op \in {"fini", "exit"} /\ ev.nfree = 1 /\ ev.nalloc = 0)
    /\ (~ev.had /\ (ev.op = "init" \/ (ev.op = "steady" /\ ev.ret = RCUTILS_RET_OK))) =>
         HasCell(ev.t)
    /\ (ev.had /\ ev.op = "fini") => ~HasCell(ev.t)

\* An init took a thread whose cell a fini had released back to a cell.
C11_Witness ==
  /\ backend = PTHREAD /\ ev.op = "init"
  /\ ev.preAfterFini /\ ev.preUsed /\ ev.keyWas = "valid" /\ ~ev.had
  /\ HasCell(ev.t) /\ ev.nalloc = 1

C13_SystemReadLeavesCell ==
  /\ [](ev.op = "system" =>
          /\ ev.nalloc = 0 /\ ev.nfree = 0
          /\ ev.ret # RCUTILS_NON_MONOTONIC_STEADY_TIME
          /\ RecordedValue(ev.t) = ev.pre
          /\ HasCell(ev.t) = ev.had)
  /\ [][ev'.op = "system" =>
          UNCHANGED << __key_init_once, __last_steady_timestamp_storage_key,
                       __make_pthread_keys_ret, __last_steady_timestamp, slot,
                       accepted, used, afterFini, alive >>]_vars

\* A system read returned a value below the one the thread's cell records.
C13_Witness ==
  /\ backend # DISABLED /\ ev.op = "system"
  /\ ev.had /\ ev.pre = NS_PER_S
  /\ ev.ret = RCUTILS_RET_OK /\ ev.now = Ptr(0)
  /\ RecordedValue(ev.t) = NS_PER_S

\* C14: a call changes the storage and the recorded value of no thread but
\* the calling one, and a steady read is rejected as non-monotonic only when
\* its sample is older than what the calling thread itself accepted before:
\* a sample that converts and is not older is accepted whatever other threads
\* have accepted.
C14_ThreadsDoNotInterfere ==
  /\ [][\A u \in Threads :
          (ev'.op # "none" /\ u # ev'.t) =>
            /\ slot'[u] = slot[u]
            /\ __last_steady_timestamp'[u] = __last_steady_timestamp[u]
            /\ accepted'[u] = accepted[u]
            /\ alive'[u] = alive[u]]_vars
  /\ []((backend # DISABLED /\ ev.op = "steady" /\ ev.sample # NULL) =>
          /\ (ev.ret = RCUTILS_NON_MONOTONIC_STEADY_TIME) =>
               (SteadyValue(Deref(ev.sample)) < ev.preAccepted)
          /\ (SteadyConverts(Deref(ev.sample))
                /\ SteadyValue(Deref(ev.sample)) >= ev.preAccepted) =>
               (ev.ret = RCUTILS_RET_OK))

\* A thread's steady read returned a value smaller than the one another
\* thread has on record.
C14_Witness ==
  /\ backend # DISABLED /\ ev.op = "steady"
  /\ ev.ret = RCUTILS_RET_OK /\ ev.now = Ptr(0)
  /\ \E u \in Threads : u # ev.t /\ alive[u] /\ RecordedValue(u) = NS_PER_S

\* C15: pthread backend, threads inside __ensure_last_steady_timestamp_storage
\* concurrently: __make_pthread_keys runs at most once, and has run once when
\* pthread_once has completed; at most one thread is inside it; and a thread
\* is past the pthread_once call, where it reads and writes its slot, only
\* when the key creation has completed.
C15_KeyCreatedOnce ==
  /\ key_creations <= 1
  /\ (__key_init_once = "DONE") => (key_creations = 1)
  /\ Cardinality({ t \in Threads : pc[t].at \in {"make_keys", "made"} }) <= 1
  /\ \A t \in Threads :
       /\ (pc[t].at = "rest") => (__key_init_once = "DONE")
       /\ (pc[t].at \in {"make_keys", "made"}) => (__key_init_once = "RUNNING")
       /\ (slot[t] # NULL) =>
            (__key_init_once = "DONE" /\ __last_steady_timestamp_storage_key = "valid")

\* One thread has created the key and not yet returned from pthread_once,
\* another waits in pthread_once.
C15_Witness ==
  \E t, u \in Threads :
    /\ t # u
    /\ pc[t].at = "made" /\ pc[u].at = "once"
    /\ key_creations = 1 /\ __key_init_once = "RUNNING"

\* C16: with sanity checks enabled, a timespec whose seconds exceed
\* INT64_MAX / NS_PER_S makes the system read and the steady read both fail
\* with RCUTILS_CALCULATION_OVERFLOW, and nothing is stored.
C16_SecondsOverflowIsOverflow ==
  (/\ platform = UNIX /\ backend # DISABLED
   /\ ev.op \in {"steady", "system"} /\ ev.sample # NULL
   /\ Deref(ev.sample).tv_sec > MaxSeconds) =>
    (ev.ret = RCUTILS_CALCULATION_OVERFLOW /\ ev.now = NULL)

\* C17 as stated: with sanity checks enabled, a read of time_unix.c succeeds
\* exactly when the timespec is not negative and its nanoseconds, computed
\* without wrap-around, are at most INT64_MAX (and, for a steady read, are
\* not older than what the thread accepted before); the value is then exactly
\* those nanoseconds.
C17_SucceedsExactlyWhenSumFits ==
  (/\ platform = UNIX /\ backend # DISABLED
   /\ ev.op \in {"steady", "system"} /\ ev.sample # NULL) =>
    LET ts == Deref(ev.sample)
        fits == ~Negative(ts) /\ Nanoseconds(ts) <= INT64_MAX
    IN /\ (ev.op = "system") => ((ev.ret = RCUTILS_RET_OK) <=> fits)
       /\ (ev.op = "steady") =>
            ((ev.ret = RCUTILS_RET_OK) <=> (fits /\ Nanoseconds(ts) >= ev.preAccepted))
       /\ (ev.ret = RCUTILS_RET_OK) => (ev.now = Ptr(Nanoseconds(ts)))

\* C17, amended: ... exactly when the timespec is not negative, its seconds
\* are at most INT64_MAX / NS_PER_S and its nanoseconds are at most INT64_MAX
\* (and, for a steady read, are not older than what the thread accepted
\* before); the value is then exactly those nanoseconds, and in every other
\* case the read fails and stores nothing.
C17_SucceedsExactlyWhenSecondsAndSumFit ==
  (/\ platform = UNIX /\ backend # DISABLED
   /\ ev.op \in {"steady", "system"} /\ ev.sample # NULL) =>
    LET ts == Deref(ev.sample)
        fits == /\ ~Negative(ts)
                /\ ts.tv_sec <= MaxSeconds
                /\ Nanoseconds(ts) <= INT64_MAX
    IN /\ (ev.op = "system") => ((ev.ret = RCUTILS_RET_OK) <=> fits)
       /\ (ev.op = "steady") =>
            ((ev.ret = RCUTILS_RET_OK) <=> (fits /\ Nanoseconds(ts) >= ev.preAccepted))
       /\ (ev.ret = RCUTILS_RET_OK) => (ev.now = Ptr(Nanoseconds(ts)))
       /\ (ev.ret # RCUTILS_RET_OK) => (ev.now = NULL)

\* A steady read converted the largest timespec that fits, after a smaller one.
C17_Witness ==
  /\ platform = UNIX /\ backend # DISABLED /\ ev.op = "steady"
  /\ ev.preAccepted = NS_PER_S
  /\ ev.sample = Ptr([tv_sec |-> MaxSeconds, tv_nsec |-> INT64_MAX % NS_PER_S])
  /\ ev.ret = RCUTILS_RET_OK /\ ev.now = Ptr(INT64_MAX)

\* C18: every value a system read or a steady read stores together with
\* RCUTILS_RET_OK is non-negative, whatever the clock delivered, on every
\* platform and with sanity checks enabled or disabled.
C18_StoredTimePointsAreNonNegative ==
  (ev.op \in {"steady", "system"} /\ ev.ret = RCUTILS_RET_OK) =>
    (ev.now # NULL /\ Deref(ev.now) >= 0)

\* C19: a system read or a steady read that returns another status than
\* RCUTILS_RET_OK (for a negative sample, an overflow, a non-monotonic value,
\* a failure of the thread-local storage) has stored nothing to *now.
C19_FailedReadStoresNothing ==
  (ev.op \in {"steady", "system"} /\ ev.ret # RCUTILS_RET_OK) => (ev.now = NULL)

\* A steady read of a sample that converts failed because the thread's cell
\* could not be allocated.
C19_Witness ==
  /\ backend = PTHREAD /\ ev.op = "steady"
  /\ ev.sample = Ptr([tv_sec |-> 1, tv_nsec |-> 0])
  /\ ev.ret = RCUTILS_RET_BAD_ALLOC /\ ev.now = NULL /\ ~HasCell(ev.t)

\* C20: a system read or a steady read with a null destination returns
\* RCUTILS_RET_INVALID_ARGUMENT without reading a clock, allocates and
\* releases nothing, stores nothing, and leaves the key and every thread's
\* storage and recorded value as they were, whatever state the calling thread
\* is in.
C20_NullDestinationIsRejectedFirst ==
  /\ []((ev.op \in {"steady", "system"} /\ ev.now_is_null) =>
          /\ ev.ret = RCUTILS_RET_INVALID_ARGUMENT
          /\ ev.sample = NULL /\ ev.now = NULL
          /\ ev.nalloc = 0 /\ ev.nfree = 0
          /\ RecordedValue(ev.t) = ev.pre
          /\ HasCell(ev.t) = ev.had
          /\ BoundAllocator(ev.t) = ev.preAllocator)
  /\ [][(ev'.op \in {"steady", "system"} /\ ev'.now_is_null) =>
          UNCHANGED << __key_init_once, __last_steady_timestamp_storage_key,
                       __make_pthread_keys_ret, __last_steady_timestamp, slot,
                       accepted, alive, crashed >>]_vars

\* A steady read with a null destination on a thread that has no cell yet,
\* before the key exists.
C20_Witness ==
  /\ backend = PTHREAD /\ ev.op = "steady" /\ ev.now_is_null
  /\ ~ev.had /\ ev.keyWas = "invalid"
  /\ ev.ret = RCUTILS_RET_INVALID_ARGUMENT
  /\ ~HasCell(ev.t) /\ __key_init_once = "INIT"

\* C21: whatever the input and the thread's state, a steady read returns only
\* RCUTILS_RET_OK, RCUTILS_RET_INVALID_ARGUMENT, RCUTILS_RET_BAD_ALLOC or
\* RCUTILS_RET_ERROR, and a system read only RCUTILS_RET_OK,
\* RCUTILS_RET_INVALID_ARGUMENT or RCUTILS_RET_ERROR.
C21_ReadsReturnDocumentedCodes ==
  /\ (ev.op = "steady") =>
       ev.ret \in {RCUTILS_RET_OK, RCUTILS_RET_INVALID_ARGUMENT,
                   RCUTILS_RET_BAD_ALLOC, RCUTILS_RET_ERROR}
  /\ (ev.op = "system") =>
       ev.ret \in {RCUTILS_RET_OK, RCUTILS_RET_INVALID_ARGUMENT, RCUTILS_RET_ERROR}

\* C22: rcutils_steady_time_now_thread_specific_init returns only
\* RCUTILS_RET_OK or RCUTILS_RET_BAD_ALLOC, also when the key cannot be
\* created for lack of resources and when the new cell cannot be installed
\* under the key.
C22_InitReturnsOkOrBadAlloc ==
  (ev.op = "init") => (ev.ret \in {RCUTILS_RET_OK, RCUTILS_RET_BAD_ALLOC})

\* C23: rcutils_steady_time_now_thread_specific_fini returns RCUTILS_RET_OK
\* from every state of the calling thread: never initialized, with a cell,
\* with its cell released.
C23_FiniAlwaysReturnsOk ==
  (ev.op = "fini") => (ev.ret = RCUTILS_RET_OK /\ ~crashed)

\* C24: pthread backend: an init or steady read that fails because the key or
\* the cell could not be had leaves the thread without a cell, and an init or
\* steady read on a thread without a cell for which the resources are to be
\* had creates the cell and succeeds, whatever failed before.
C24_FailedCreationIsRetried ==
  (backend = PTHREAD /\ ev.op \in {"init", "steady"} /\ ~ev.had) =>
    /\ (ev.ret # RCUTILS_RET_OK /\ ev.fault \in {"key", "allocate"}) =>
         (slot[ev.t] = NULL /\ ev.nalloc = 0)
    /\ (ev.fault = "none") => (ev.ret = RCUTILS_RET_OK /\ HasCell(ev.t))

C26_BackendsAgree ==
  (ev.op # "none" /\ twin.op # "none") => (ev.ret = twin.ret /\ ev.now = twin.now)

\* The nanoseconds since 1970 a system sample of the platform stands for (a
\* FILETIME counts 100 ns ticks since 1601).
SystemValue(sm) ==
  IF platform = WIN32 THEN (sm.ft - FILETIME_EPOCH) * 100 ELSE Nanoseconds(sm)

\* C30: the library built with RCUTILS_DISABLE_TIME_SANITY_CHECKS: a system
\* read or a steady read of a sample that stands for more nanoseconds than an
\* int64_t holds still fails, and stores no wrapped value.
C30_OverflowIsReportedWithoutSanityChecks ==
  (/\ backend = DISABLED /\ ev.op \in {"steady", "system"} /\ ev.sample # NULL
   /\ (IF ev.op = "steady" THEN SteadyValue(Deref(ev.sample))
                           ELSE SystemValue(Deref(ev.sample))) > INT64_MAX)
  => (ev.ret # RCUTILS_RET_OK /\ ev.now = NULL)

\* The ancestors of a logger name: what is left of it in front of one of its
\* separators; and the level the nearest name with a level has, the name
\* itself first (the default logger's level when there is none).
Ancestors(name) ==
  { Prefix(name, i - 1) : i \in { j \in 1..Len(name) : name[j] = RCUTILS_LOGGING_SEPARATOR_CHAR } }
NearestLevel(l, name) ==
  LET with_level == ({name} \cup Ancestors(name)) \cap Configured(l)
      nearest == CHOOSE p \in with_level : \A q \in with_level : Len(q) <= Len(p)
  IN IF with_level = {} THEN l.g_rcutils_logging_default_logger_level
     ELSE l.severities[nearest]

\* C27: the effective level of a logger name is the level set on the name
\* or else on its nearest ancestor (the name cut in front of one of its dots),
\* and the default logger's level when none of them has a level; a name that
\* only starts with another name ("a_" and "a") does not descend from it, and
\* a trailing dot ends in an empty child name ("a.." descends from "a.").
C27_EffectiveLevelIsNearestAncestors ==
  (log_ev.op = "effective") => (log_ev.result = NearestLevel(logging, log_ev.name))

\* The effective level of "a.." is asked for when "a" and "a." have
\* different levels, and when "a_" is asked for, "a" has a level that is not
\* the default.
C27_Witness ==
  /\ log_ev.op = "effective"
  /\ \/ /\ log_ev.name = <<"a", ".", ".">>
        /\ {<<"a">>, <<"a", ".">>} \subseteq Configured(logging)
        /\ logging.severities[<<"a">>] # logging.severities[<<"a", ".">>]
        /\ log_ev.result = logging.severities[<<"a", ".">>]
     \/ /\ log_ev.name = <<"a", "_">>
        /\ <<"a">> \in Configured(logging)
        /\ logging.severities[<<"a">>] # logging.g_rcutils_logging_default_logger_level
        /\ log_ev.result = logging.g_rcutils_logging_default_logger_level

\* C28: rcutils_log calls the output handler once, with the message's
\* location, severity, name, format and arguments, when the severity is at or
\* above the logger's effective level, and not at all when it is below.
C28_HandlerCalledOnceAtOrAboveLevel ==
  (log_ev.op = "log") =>
    IF log_ev.level >= NearestLevel(logging, log_ev.name)
    THEN log_ev.handled = << [location |-> log_ev.location, level |-> log_ev.level,
                              name |-> log_ev.name, format |-> log_ev.format,
                              args |-> log_ev.args] >>
    ELSE log_ev.handled = << >>

\* A message at exactly the level its logger inherits from an ancestor
\* reached the handler.
C28_Witness ==
  /\ log_ev.op = "log" /\ log_ev.name = <<"a", ".", "_">>
  /\ <<"a">> \in Configured(logging)
  /\ log_ev.level = logging.severities[<<"a">>]
  /\ log_ev.level # logging.g_rcutils_logging_default_logger_level
  /\ Len(log_ev.handled) = 1

\* C29: after rcutils_logging_shutdown followed by rcutils_logging_initialize
\* every logger name that had a level before has the default logger's level
\* as its effective level.
C29_RestartClearsSeverities ==
  (log_ev.op = "initialize" /\ log_ev.restart) =>
    \A name \in log_ev.configured :
      rcutils_logging_get_logger_effective_level(logging, name)
        = logging.g_rcutils_logging_default_logger_level

\* Logging was restarted when "a" and "a.a" had levels.
C29_Witness ==
  /\ log_ev.op = "initialize" /\ log_ev.restart
  /\ {<<"a">>, <<"a", ".", "a">>} \subseteq log_ev.configured
  /\ logging.g_rcutils_logging_initialized

\* C31: with sanity checks enabled, a steady read whose sample is rejected as
\* negative (POSIX) or as overflowing has not reached the monotonicity check:
\* nothing was allocated or released, the thread's recorded value and its
\* cell are what they were, first steady read of the thread or not, and the
\* key and every thread's storage are untouched.
C31_RejectedSampleNeverReachesTheCheck ==
  /\ []((/\ ev.op = "steady" /\ backend # DISABLED /\ ev.sample # NULL
         /\ \/ ev.ret = RCUTILS_CALCULATION_OVERFLOW
            \/ (platform = UNIX /\ Negative(Deref(ev.sample)))) =>
          /\ ev.ret \in {RCUTILS_CALCULATION_OVERFLOW, RCUTILS_RET_ERROR}
          /\ ev.nalloc = 0 /\ ev.nfree = 0
          /\ RecordedValue(ev.t) = ev.pre
          /\ HasCell(ev.t) = ev.had)
  /\ [][(/\ ev'.op = "steady" /\ backend # DISABLED /\ ev'.sample # NULL
         /\ \/ ev'.ret = RCUTILS_CALCULATION_OVERFLOW
            \/ (platform = UNIX /\ Negative(Deref(ev'.sample)))) =>
          UNCHANGED << __key_init_once, __last_steady_timestamp_storage_key,
                       __make_pthread_keys_ret, __last_steady_timestamp, slot,
                       accepted >>]_vars

\* The first steady read of a thread, before the key exists, got a sample
\* that overflows; and a thread with a recorded value got a negative sample.
C31_Witness ==
  /\ ev.op = "steady" /\ backend = PTHREAD
  /\ \/ /\ ev.ret = RCUTILS_CALCULATION_OVERFLOW
        /\ ~ev.preUsed /\ ~ev.had /\ ev.keyWas = "invalid"
        /\ ~HasCell(ev.t) /\ __last_steady_timestamp_storage_key = "invalid"
     \/ /\ Negative(Deref(ev.sample)) /\ ev.ret = RCUTILS_RET_ERROR
        /\ ev.had /\ ev.pre > 0 /\ RecordedValue(ev.t) = ev.pre

\* C32: on Windows, for a performance count c >= 0 at a frequency f > 0: a
\* steady read that returns a value returns
\* floor(c / f) * NS_PER_S + floor((c mod f) * NS_PER_S / f), which is
\* floor(c * NS_PER_S / f), computed without wrap-around; and when
\* (c mod f) * NS_PER_S, floor(c / f) * NS_PER_S or their sum exceeds INT64_MAX
\* the read returns RCUTILS_CALCULATION_OVERFLOW.
C32_CountConvertsOrOverflows ==
  (/\ ev.op = "steady" /\ platform = WIN32 /\ ev.sample # NULL
   /\ Deref(ev.sample).count >= 0 /\ Deref(ev.sample).freq > 0) =>
    LET c == Deref(ev.sample).count
        f == Deref(ev.sample).freq
        seconds_in_ns == (c \div f) * NS_PER_S
        remainder_in_ns == ((c % f) * NS_PER_S) \div f
    IN /\ (ev.ret = RCUTILS_RET_OK) =>
            /\ ev.now = Ptr(seconds_in_ns + remainder_in_ns)
            /\ seconds_in_ns + remainder_in_ns = (c * NS_PER_S) \div f
       /\ (\/ (c % f) * NS_PER_S > INT64_MAX
           \/ seconds_in_ns > INT64_MAX
           \/ seconds_in_ns + remainder_in_ns > INT64_MAX) =>
            ev.ret = RCUTILS_CALCULATION_OVERFLOW

\* C33: a steady read or a monotonicity check that returns another status
\* than RCUTILS_RET_OK leaves the calling thread's recorded last timestamp as
\* it was before the call, under every backend, also when the comparison
\* passed and pthread_setspecific then failed to install the cell again.
C33_FailedCallKeepsRecordedValue ==
  (ev.op \in {"steady", "check"} /\ ev.ret \notin {RCUTILS_RET_OK, CRASH}) =>
    (RecordedValue(ev.t) = ev.pre)

\* C34: pthread backend: when a call that allocated a cell returns, the cell
\* is installed in the calling thread's slot or has been given back to its
\* allocator; a failure of pthread_setspecific to install it leaks nothing.
C34_AllocatedCellIsInstalledOrReleased ==
  (backend = PTHREAD /\ ev.op \in {"init", "steady", "check"} /\ ev.nalloc > 0) =>
    (HasCell(ev.t) \/ ev.nfree = ev.nalloc)

\* C35: pthread backend: whenever a public operation has returned, a thread's
\* slot is NULL or points to a cell that is still allocated, so that nothing
\* later reads or releases released memory.
C35_SlotNeverDangles ==
  (backend = PTHREAD /\ ev.op # "none") =>
    /\ \A t \in Threads : slot[t] # NULL => Deref(slot[t]).frees = 0
    /\ ~ev.refree

\* C36: pthread backend: no operation passes the key to pthread_getspecific
\* or pthread_setspecific before pthread_key_create has created it: not a
\* fini that is the first call in the process, and not a fini made after the
\* creation of the key failed.
C36_KeyIsCreatedBeforeUse ==
  (backend = PTHREAD /\ ev.op # "none") => ~ev.uncreated

\* The places in what a hook did where one of the given things was done.
Places(did, things) == { i \in 1..Len(did) : did[i] \in things }

\* C37: in the hook of an unexpected malloc, realloc or free the callbacks
\* run before the real memory operation, and the line about the operation
\* and the stack trace come after it.
C37_CallbacksBeforeAndLogAfter ==
  (mem_ev.op # "none" /\ mem_ev.unexpected) =>
    \A r \in Places(mem_ev.did, {"real"}) :
      /\ \A c \in Places(mem_ev.did, {"callback", "callback2"}) : c < r
      /\ \A l \in Places(mem_ev.did, {"log", "stacktrace"}) : r < l

\* C38: the hooks call an unexpected-operation callback only when that
\* callback's pointer is set: whichever of the two are set, no call goes
\* through a null pointer, and the real memory operation is done exactly once.
C38_OnlySetCallbacksAreCalled ==
  (mem_ev.op # "none") =>
    /\ Places(mem_ev.did, {"null"}) = {}
    /\ Places(mem_ev.did, {"callback"}) # {} => mem_ev.callback
    /\ Places(mem_ev.did, {"callback2"}) # {} => mem_ev.callback2
    /\ Cardinality(Places(mem_ev.did, {"real"})) = 1

====
